---- MODULE Spec2Model ----
(***************************************************************************)
(* Transcript parsing of tenx-hooks: the typed entry model of the          *)
(* claude-transcript crate (and the older copy kept in                     *)
(* tenx-hooks/src/transcript.rs), the serde decoding of one JSON line into *)
(* that model, and the line loop of parse_transcript_with_context.         *)
(***************************************************************************)
EXTENDS Integers, Sequences, FiniteSets, TLC

VARIABLES
    content,    \* parse_transcript_with_context: the input text, a sequence of characters
    line_idx,   \* the number of lines the for loop has consumed so far
    entries,    \* Vec<TranscriptEntry> built so far
    errors,     \* Vec<TranscriptParseError> built so far
    pc,         \* "loop" while the for loop runs, "done" after the return
    lib,        \* which crate's model decodes the line under test
    json_line,  \* parse_transcript_line: the line under test
    result,     \* its Result<TranscriptEntry, serde_json::Error>, or Pending
    answers,    \* what the MessageContent queries returned for the decoded entry
    program,    \* hook layer: the function or hook program that runs
    args,       \* its arguments, its stdin and what its surroundings will answer
    step,       \* its position in the code
    input,      \* what Input::read returned
    feedback_messages,  \* run_rust_tools: the Vec<String> built so far
    commands,   \* the child processes it launched, in order
    output,     \* the hook output value built so far
    call,       \* the constructor or builder called last
    stdout,     \* the lines it printed to stdout
    exit_status,    \* the status the process ended with, None while it runs
    returned    \* what the function returned to its caller, None if nothing (yet)

hookVars == <<program, args, step, input, feedback_messages, commands, output, call,
              stdout, exit_status, returned>>
decodeVars == <<lib, json_line, result, answers, hookVars>>
vars == <<content, line_idx, entries, errors, pc, lib, json_line, result, answers, hookVars>>

(***************************************************************************)
(* JSON values (serde_json::Value): null, bool, number, string, array,     *)
(* object.  An object is a function from its keys to values.               *)
(***************************************************************************)
JNull == [k |-> "null"]
JBool(x) == [k |-> "bool", b |-> x]
JNum(x) == [k |-> "num", n |-> x]
JStr(x) == [k |-> "str", s |-> x]
JArr(x) == [k |-> "arr", a |-> x]
JObj(x) == [k |-> "obj", o |-> x]

Keys(j) == DOMAIN j.o
Without(j, key) == JObj([x \in Keys(j) \ {key} |-> j.o[x]])
With(j, key, val) == JObj([x \in Keys(j) \cup {key} |-> IF x = key THEN val ELSE j.o[x]])

(***************************************************************************)
(* Type references used by the field tables below.                         *)
(***************************************************************************)
TString == [t |-> "String"]
TBool == [t |-> "bool"]
TU64 == [t |-> "u64"]
TValue == [t |-> "Value"]
TOption(x) == [t |-> "Option", of |-> x]
TVec(x) == [t |-> "Vec", of |-> x]
TNamed(x) == [t |-> "named", name |-> x]
THashMap == [t |-> "HashMap"]
\* an enum of unit variants: variants[i].rust is written variants[i].wire
TUnitEnum(variants) == [t |-> "unit", variants |-> variants]

\* One struct field: its Rust name, its name on the wire after rename /
\* rename_all, its type, and whether it carries skip_serializing_if = is_none.
Field(rust, wire, ty, skip) == [rust |-> rust, wire |-> wire, ty |-> ty, skip |-> skip]

CT == "claude-transcript"
TH == "tenx-hooks"

(***************************************************************************)
(* The typed model of claude-transcript/src/lib.rs.  Fields are listed in  *)
(* declaration order (serde reads a struct written as an array by          *)
(* position).                                                              *)
(***************************************************************************)
UserEntry == <<
    Field("uuid", "uuid", TString, FALSE),
    Field("timestamp", "timestamp", TString, FALSE),
    Field("message", "message", TNamed("TranscriptMessage"), FALSE),
    Field("cwd", "cwd", TString, FALSE),
    Field("session_id", "sessionId", TString, FALSE),
    Field("version", "version", TString, FALSE),
    Field("user_type", "userType", TString, FALSE),
    Field("is_sidechain", "isSidechain", TBool, FALSE),
    Field("parent_uuid", "parentUuid", TOption(TString), FALSE),
    Field("tool_use_result", "toolUseResult", TOption(TValue), TRUE) >>

AssistantEntryOwnMessage == <<
    Field("uuid", "uuid", TString, FALSE),
    Field("timestamp", "timestamp", TString, FALSE),
    Field("message", "message", TNamed("MessageAssistant"), FALSE),
    Field("cwd", "cwd", TString, FALSE),
    Field("session_id", "sessionId", TString, FALSE),
    Field("version", "version", TString, FALSE),
    Field("user_type", "userType", TString, FALSE),
    Field("is_sidechain", "isSidechain", TBool, FALSE),
    Field("parent_uuid", "parentUuid", TString, FALSE),
    Field("request_id", "requestId", TOption(TString), TRUE),
    Field("is_api_error_message", "isApiErrorMessage", TOption(TBool), TRUE) >>

AssistantEntry == <<
    Field("uuid", "uuid", TString, FALSE),
    Field("timestamp", "timestamp", TString, FALSE),
    Field("message", "message", TNamed("TranscriptMessage"), FALSE),
    Field("cwd", "cwd", TString, FALSE),
    Field("session_id", "sessionId", TString, FALSE),
    Field("version", "version", TString, FALSE),
    Field("user_type", "userType", TString, FALSE),
    Field("is_sidechain", "isSidechain", TBool, FALSE),
    Field("parent_uuid", "parentUuid", TString, FALSE),
    Field("request_id", "requestId", TOption(TString), TRUE),
    Field("is_api_error_message", "isApiErrorMessage", TOption(TBool), TRUE) >>

SummaryEntry == <<
    Field("summary", "summary", TString, FALSE),
    Field("leaf_uuid", "leafUuid", TString, FALSE) >>

SystemEntry == <<
    Field("uuid", "uuid", TString, FALSE),
    Field("timestamp", "timestamp", TString, FALSE),
    Field("content", "content", TString, FALSE),
    Field("cwd", "cwd", TString, FALSE),
    Field("session_id", "sessionId", TString, FALSE),
    Field("version", "version", TString, FALSE),
    Field("user_type", "userType", TString, FALSE),
    Field("is_sidechain", "isSidechain", TBool, FALSE),
    Field("parent_uuid", "parentUuid", TString, FALSE),
    Field("is_meta", "isMeta", TBool, FALSE),
    Field("level", "level", TOption(TString), TRUE),
    Field("tool_use_id", "toolUseID", TOption(TString), TRUE) >>

\* #[serde(tag = "type", rename_all = "lowercase")]; variants in declaration order
TranscriptEntry == [kind |-> "tagged", tag |-> "type", variants |-> <<
    [rust |-> "User", wire |-> "user", fields |-> "UserEntry"],
    [rust |-> "Assistant", wire |-> "assistant", fields |-> "AssistantEntry"],
    [rust |-> "Summary", wire |-> "summary", fields |-> "SummaryEntry"],
    [rust |-> "System", wire |-> "system", fields |-> "SystemEntry"] >>]

\* The two struct variants of TranscriptMessage
MessageUser == <<
    Field("content", "content", TOption(TNamed("MessageContent")), TRUE) >>

MessageAssistant == <<
    Field("id", "id", TString, FALSE),
    Field("message_type", "type", TString, FALSE),
    Field("model", "model", TString, FALSE),
    Field("content", "content", TOption(TNamed("MessageContent")), TRUE),
    Field("thinking", "thinking", TOption(TString), TRUE),
    Field("tool_uses", "tool_uses", TOption(TVec(TNamed("ToolUse"))), TRUE),
    Field("code_outputs", "code_outputs", TOption(TVec(TNamed("CodeOutput"))), TRUE),
    Field("stop_reason", "stop_reason", TOption(TString), FALSE),
    Field("stop_sequence", "stop_sequence", TOption(TString), FALSE),
    Field("usage", "usage", TNamed("UsageInfo"), FALSE) >>

\* #[serde(tag = "role", rename_all = "lowercase")]
TranscriptMessage == [kind |-> "tagged", tag |-> "role", variants |-> <<
    [rust |-> "User", wire |-> "user", fields |-> "MessageUser"],
    [rust |-> "Assistant", wire |-> "assistant", fields |-> "MessageAssistant"] >>]

\* #[serde(untagged)]: the variants are tried in declaration order
MessageContentCatchAll == [kind |-> "untagged", variants |-> <<
    [rust |-> "Text", ty |-> TString],
    [rust |-> "Blocks", ty |-> TVec(TNamed("ContentBlock"))],
    [rust |-> "Other", ty |-> TValue] >>]

MessageContent == [kind |-> "untagged", variants |-> <<
    [rust |-> "Text", ty |-> TString],
    [rust |-> "Blocks", ty |-> TVec(TNamed("ContentBlock"))] >>]

ToolResultContent == [kind |-> "untagged", variants |-> <<
    [rust |-> "Text", ty |-> TString],
    [rust |-> "Array", ty |-> TVec(TNamed("ToolResultItem"))] >>]

ToolResultItem == <<
    Field("item_type", "type", TString, FALSE),
    Field("text", "text", TString, FALSE) >>

BlockText == <<
    Field("text", "text", TString, FALSE) >>

BlockToolUse == <<
    Field("id", "id", TString, FALSE),
    Field("name", "name", TString, FALSE),
    Field("input", "input", TValue, FALSE) >>

BlockToolResult == <<
    Field("tool_use_id", "tool_use_id", TString, FALSE),
    Field("content", "content", TNamed("ToolResultContent"), FALSE),
    Field("is_error", "is_error", TOption(TBool), TRUE) >>

BlockThinking == <<
    Field("thinking", "thinking", TString, FALSE),
    Field("signature", "signature", TOption(TString), TRUE) >>

\* #[serde(tag = "type", rename_all = "snake_case")]
ContentBlock == [kind |-> "tagged", tag |-> "type", variants |-> <<
    [rust |-> "Text", wire |-> "text", fields |-> "BlockText"],
    [rust |-> "ToolUse", wire |-> "tool_use", fields |-> "BlockToolUse"],
    [rust |-> "ToolResult", wire |-> "tool_result", fields |-> "BlockToolResult"],
    [rust |-> "Thinking", wire |-> "thinking", fields |-> "BlockThinking"] >>]

ToolUse == <<
    Field("tool_name", "toolName", TString, FALSE),
    Field("tool_input", "toolInput", TValue, FALSE),
    Field("tool_output", "toolOutput", TOption(TValue), TRUE) >>

CodeOutput == <<
    Field("code", "code", TString, FALSE),
    Field("output", "output", TOption(TString), TRUE),
    Field("language", "language", TOption(TString), TRUE) >>

UsageInfo == <<
    Field("cache_creation_input_tokens", "cache_creation_input_tokens", TOption(TU64), TRUE),
    Field("cache_read_input_tokens", "cache_read_input_tokens", TOption(TU64), TRUE),
    Field("input_tokens", "input_tokens", TOption(TU64), TRUE),
    Field("output_tokens", "output_tokens", TOption(TU64), TRUE),
    Field("service_tier", "service_tier", TOption(TString), TRUE) >>

(***************************************************************************)
(* The older copy of the model in tenx-hooks/src/transcript.rs.  Only the  *)
(* definitions that differ from claude-transcript are repeated.            *)
(***************************************************************************)
HooksAssistantEntry == <<
    Field("uuid", "uuid", TString, FALSE),
    Field("timestamp", "timestamp", TString, FALSE),
    Field("message", "message", TNamed("TranscriptMessage"), FALSE),
    Field("cwd", "cwd", TString, FALSE),
    Field("session_id", "sessionId", TString, FALSE),
    Field("version", "version", TString, FALSE),
    Field("user_type", "userType", TString, FALSE),
    Field("is_sidechain", "isSidechain", TBool, FALSE),
    Field("parent_uuid", "parentUuid", TString, FALSE),
    Field("request_id", "requestId", TString, FALSE) >>

HooksSystemEntry == <<
    Field("uuid", "uuid", TString, FALSE),
    Field("timestamp", "timestamp", TString, FALSE),
    Field("content", "content", TString, FALSE),
    Field("cwd", "cwd", TString, FALSE),
    Field("session_id", "sessionId", TString, FALSE),
    Field("version", "version", TString, FALSE),
    Field("user_type", "userType", TString, FALSE),
    Field("is_sidechain", "isSidechain", TBool, FALSE),
    Field("parent_uuid", "parentUuid", TString, FALSE),
    Field("is_meta", "isMeta", TBool, FALSE),
    Field("level", "level", TString, FALSE),
    Field("tool_use_id", "toolUseID", TString, FALSE) >>

\* a plain struct here, every field optional
HooksTranscriptMessage == <<
    Field("content", "content", TOption(TNamed("MessageContent")), TRUE),
    Field("thinking", "thinking", TOption(TString), TRUE),
    Field("tool_uses", "tool_uses", TOption(TVec(TNamed("ToolUse"))), TRUE),
    Field("code_outputs", "code_outputs", TOption(TVec(TNamed("CodeOutput"))), TRUE),
    Field("role", "role", TOption(TString), TRUE),
    Field("id", "id", TOption(TString), TRUE),
    Field("model", "model", TOption(TString), TRUE),
    Field("stop_reason", "stop_reason", TOption(TString), TRUE),
    Field("stop_sequence", "stop_sequence", TOption(TString), TRUE),
    Field("message_type", "type", TOption(TString), TRUE),
    Field("usage", "usage", TOption(TNamed("UsageInfo")), TRUE) >>

\* no Thinking variant
HooksContentBlock == [kind |-> "tagged", tag |-> "type", variants |-> <<
    [rust |-> "Text", wire |-> "text", fields |-> "BlockText"],
    [rust |-> "ToolUse", wire |-> "tool_use", fields |-> "BlockToolUse"],
    [rust |-> "ToolResult", wire |-> "tool_result", fields |-> "BlockToolResult"] >>]

Struct(fs) == [kind |-> "struct", fields |-> fs]

\* The definition a type name stands for in crate l.
TypeDef(l, name) ==
    CASE name = "TranscriptEntry" -> TranscriptEntry
      [] name = "UserEntry" -> Struct(UserEntry)
      [] name = "AssistantEntry" -> Struct(IF l = TH THEN HooksAssistantEntry ELSE AssistantEntry)
      [] name = "SummaryEntry" -> Struct(SummaryEntry)
      [] name = "SystemEntry" -> Struct(IF l = TH THEN HooksSystemEntry ELSE SystemEntry)
      [] name = "TranscriptMessage" ->
            IF l = TH THEN Struct(HooksTranscriptMessage) ELSE TranscriptMessage
      [] name = "MessageUser" -> Struct(MessageUser)
      [] name = "MessageAssistant" -> Struct(MessageAssistant)
      [] name = "MessageContent" -> MessageContent
      [] name = "ToolResultContent" -> ToolResultContent
      [] name = "ToolResultItem" -> Struct(ToolResultItem)
      [] name = "ContentBlock" -> IF l = TH THEN HooksContentBlock ELSE ContentBlock
      [] name = "BlockText" -> Struct(BlockText)
      [] name = "BlockToolUse" -> Struct(BlockToolUse)
      [] name = "BlockToolResult" -> Struct(BlockToolResult)
      [] name = "BlockThinking" -> Struct(BlockThinking)
      [] name = "ToolUse" -> Struct(ToolUse)
      [] name = "CodeOutput" -> Struct(CodeOutput)
      [] name = "UsageInfo" -> Struct(UsageInfo)

(***************************************************************************)
(* serde's derived Deserialize, as serde_json::from_str drives it.         *)
(* TranscriptEntry is internally tagged, so everything below the entry's   *)
(* tag is decoded from serde's buffered Content (buffered = TRUE).         *)
(***************************************************************************)
None == [tag |-> "None"]
Some(x) == [tag |-> "Some", val |-> x]
Ok(x) == [ok |-> TRUE, val |-> x]
Err(e) == [ok |-> FALSE, err |-> e]

\* A value of an enum: the variant's name and, under that name, its payload.
Variant(name, x) == [f \in {"tag", name} |-> IF f = "tag" THEN name ELSE x]
Payload(e) == e[e.tag]

\* Position of f's first TRUE among 1..n, 0 when there is none.
FirstIndex(n, f) == IF \E i \in 1..n : f[i] THEN CHOOSE i \in 1..n : f[i] /\ \A h \in 1..(i-1) : ~f[h] ELSE 0

\* The variant an enum's tag value selects (0: none).  A tag is matched by
\* its wire name; buffered Content also accepts a variant index.
VariantIndex(d, tagv, buffered) ==
    FirstIndex(Len(d.variants), [i \in 1..Len(d.variants) |->
        \/ tagv.k = "str" /\ d.variants[i].wire = tagv.s
        \/ buffered /\ tagv.k = "num" /\ tagv.n = i - 1])

\* A struct field that is absent from the object: Option fields default to
\* None, every other type reports "missing field".
MissingFieldLenient(f) == Ok(None)

MissingFieldStrict(f) == Err("missing field")

MissingField(f) == IF f.ty.t = "Option" THEN Ok(None) ELSE Err("missing field")

RECURSIVE Deserialize(_, _, _, _)
RECURSIVE DeserializeStruct(_, _, _)

\* A struct: from an object by wire name (unknown keys ignored), or from an
\* array by position.
DeserializeStruct(l, fs, j) ==
    LET n == Len(fs)
        rs == CASE j.k = "obj" ->
                    [i \in 1..n |->
                        IF fs[i].wire \in Keys(j)
                        THEN Deserialize(l, fs[i].ty, j.o[fs[i].wire], TRUE)
                        ELSE MissingField(fs[i])]
                [] j.k = "arr" /\ Len(j.a) = n ->
                    [i \in 1..n |-> Deserialize(l, fs[i].ty, j.a[i], TRUE)]
                [] j.k = "arr" /\ Len(j.a) # n ->
                    [i \in 1..n |-> Err("invalid length")]
                [] OTHER ->
                    [i \in 1..n |-> Err("invalid type")]
        bad == FirstIndex(n, [i \in 1..n |-> ~rs[i].ok])
    IN IF j.k \notin {"obj", "arr"} THEN Err("invalid type")
       ELSE IF j.k = "arr" /\ Len(j.a) # n THEN Err("invalid length")
       ELSE IF bad # 0 THEN rs[bad]
       ELSE Ok([name \in {fs[i].rust : i \in 1..n} |->
                  rs[CHOOSE i \in 1..n : fs[i].rust = name].val])

\* An internally tagged enum: the tag is a key of the object (or the first
\* element of the array), the rest is the variant's struct.
DeserializeTagged(l, d, j, buffered) ==
    IF j.k = "obj" THEN
        IF d.tag \notin Keys(j) THEN Err("missing field")
        ELSE LET v == VariantIndex(d, j.o[d.tag], buffered) IN
             IF v = 0 THEN Err("unknown variant")
             ELSE LET r == DeserializeStruct(l, TypeDef(l, d.variants[v].fields).fields,
                                             Without(j, d.tag)) IN
                  IF r.ok THEN Ok(Variant(d.variants[v].rust, r.val)) ELSE r
    ELSE IF j.k = "arr" THEN
        IF Len(j.a) = 0 THEN Err("missing field")
        ELSE LET v == VariantIndex(d, Head(j.a), buffered) IN
             IF v = 0 THEN Err("unknown variant")
             ELSE LET r == DeserializeStruct(l, TypeDef(l, d.variants[v].fields).fields,
                                             JArr(Tail(j.a))) IN
                  IF r.ok THEN Ok(Variant(d.variants[v].rust, r.val)) ELSE r
    ELSE Err("invalid type")

\* An untagged enum: the first variant whose type accepts the value.
DeserializeUntagged(l, d, j) ==
    LET n == Len(d.variants)
        rs == [i \in 1..n |-> Deserialize(l, d.variants[i].ty, j, TRUE)]
        hit == FirstIndex(n, [i \in 1..n |-> rs[i].ok])
    IN IF hit = 0 THEN Err("data did not match any variant")
       ELSE Ok(Variant(d.variants[hit].rust, rs[hit].val))

Deserialize(l, ty, j, buffered) ==
    CASE ty.t = "String" -> IF j.k = "str" THEN Ok(j.s) ELSE Err("invalid type")
      [] ty.t = "bool" -> IF j.k = "bool" THEN Ok(j.b) ELSE Err("invalid type")
      [] ty.t = "u64" -> IF j.k = "num" /\ j.n >= 0 THEN Ok(j.n) ELSE Err("invalid type")
      [] ty.t = "Value" -> Ok(j)
      [] ty.t = "HashMap" -> IF j.k = "obj" THEN Ok(j.o) ELSE Err("invalid type")
      [] ty.t = "unit" ->
            LET hit == IF j.k = "str"
                       THEN {i \in 1..Len(ty.variants) : ty.variants[i].wire = j.s} ELSE {}
            IN IF j.k # "str" THEN Err("invalid type")
               ELSE IF hit = {} THEN Err("unknown variant")
               ELSE Ok(ty.variants[CHOOSE i \in hit : TRUE].rust)
      [] ty.t = "Option" ->
            IF j.k = "null" THEN Ok(None)
            ELSE LET r == Deserialize(l, ty.of, j, buffered) IN
                 IF r.ok THEN Ok(Some(r.val)) ELSE r
      [] ty.t = "Vec" ->
            IF j.k # "arr" THEN Err("invalid type")
            ELSE LET n == Len(j.a)
                     rs == [i \in 1..n |-> Deserialize(l, ty.of, j.a[i], buffered)]
                     bad == FirstIndex(n, [i \in 1..n |-> ~rs[i].ok])
                 IN IF bad # 0 THEN rs[bad] ELSE Ok([i \in 1..n |-> rs[i].val])
      [] ty.t = "named" ->
            LET d == TypeDef(l, ty.name) IN
            CASE d.kind = "struct" -> DeserializeStruct(l, d.fields, j)
              [] d.kind = "tagged" -> DeserializeTagged(l, d, j, buffered)
              [] d.kind = "untagged" -> DeserializeUntagged(l, d, j)

(***************************************************************************)
(* Text.  A text is a sequence of characters; LF, CR, SP and TAB are the   *)
(* line feed, the carriage return, the space and the tab, X is a character *)
(* that starts no JSON value, and Doc(j) stands for the compact JSON text  *)
(* of j (which holds no line break).                                       *)
(***************************************************************************)
LF == [c |-> "LF"]
CR == [c |-> "CR"]
SP == [c |-> "SP"]
TAB == [c |-> "TAB"]
X == [c |-> "X"]
Doc(j) == [c |-> "doc", j |-> j]

IsWhitespace(ch) == ch.c \in {"LF", "CR", "SP", "TAB"}

\* serde_json::from_str::<TranscriptEntry>: skip whitespace, read one value,
\* then Deserializer::end() rejects anything but whitespace.
RECURSIVE TrimStart(_)
TrimStart(s) == IF s # <<>> /\ IsWhitespace(Head(s)) THEN TrimStart(Tail(s)) ELSE s

from_str(l, s) ==
    LET t == TrimStart(s) IN
    IF t = <<>> THEN Err("EOF while parsing a value")
    ELSE IF Head(t).c # "doc" THEN Err("expected value")
    ELSE LET r == Deserialize(l, TNamed("TranscriptEntry"), Head(t).j, FALSE) IN
         IF ~r.ok THEN r
         ELSE IF TrimStart(Tail(t)) # <<>> THEN Err("trailing characters")
         ELSE r

parse_transcript_line(l, line) == from_str(l, line)

(***************************************************************************)
(* Sample documents, after the lines of                                    *)
(* tenx-hooks/tests/test_transcript_parsing.rs (values shortened).         *)
(***************************************************************************)
UsageDoc == JObj([input_tokens |-> JNum(1), output_tokens |-> JNum(2),
                  service_tier |-> JStr("standard")])

UserMessageDoc == JObj([role |-> JStr("user"), content |-> JStr("hello")])

AssistantMessageDoc == JObj([id |-> JStr("msg_123"), type |-> JStr("message"),
    role |-> JStr("assistant"), model |-> JStr("test-model"),
    content |-> JStr("hello back"), stop_reason |-> JNull, stop_sequence |-> JNull,
    usage |-> UsageDoc])

UserDoc == JObj([type |-> JStr("user"), message |-> UserMessageDoc,
    uuid |-> JStr("test-uuid"), timestamp |-> JStr("t0"), cwd |-> JStr("/test"),
    sessionId |-> JStr("test-session"), version |-> JStr("1.0.0"),
    userType |-> JStr("external"), isSidechain |-> JBool(FALSE), parentUuid |-> JNull])

AssistantDoc == JObj([type |-> JStr("assistant"), message |-> AssistantMessageDoc,
    uuid |-> JStr("test-uuid"), timestamp |-> JStr("t0"), cwd |-> JStr("/test"),
    sessionId |-> JStr("test-session"), version |-> JStr("1.0.0"),
    userType |-> JStr("external"), isSidechain |-> JBool(FALSE),
    parentUuid |-> JStr("parent-123"), requestId |-> JStr("req-123")])

SystemDoc == JObj([type |-> JStr("system"), uuid |-> JStr("sys-uuid"),
    timestamp |-> JStr("t0"), content |-> JStr("test content"), cwd |-> JStr("/test"),
    sessionId |-> JStr("test-session"), version |-> JStr("1.0.0"),
    userType |-> JStr("external"), isSidechain |-> JBool(FALSE),
    parentUuid |-> JStr("parent-123"), isMeta |-> JBool(FALSE),
    level |-> JStr("info"), toolUseID |-> JStr("tool-123")])

SummaryDoc == JObj([type |-> JStr("summary"), summary |-> JStr("Test summary"),
                    leafUuid |-> JStr("leaf-123")])

\* {"invalid": "missing type field"}
MissingTypeDoc == JObj([invalid |-> JStr("missing type field")])

(***************************************************************************)
(* str::lines(): split after every LF, then drop the trailing LF of a      *)
(* segment and, only when an LF was dropped, one CR before it.  A final    *)
(* segment without LF is a line as it stands; the empty text has no line.  *)
(***************************************************************************)
FirstLF(s) == FirstIndex(Len(s), [i \in 1..Len(s) |-> s[i] = LF])

RECURSIVE split_inclusive(_)
split_inclusive(s) ==
    IF s = <<>> THEN <<>>
    ELSE LET i == FirstLF(s) IN
         IF i = 0 THEN <<s>>
         ELSE <<SubSeq(s, 1, i)>> \o split_inclusive(SubSeq(s, i + 1, Len(s)))

strip_line_ending(seg) ==
    LET n == Len(seg) IN
    IF n = 0 \/ seg[n] # LF THEN seg
    ELSE IF n >= 2 /\ seg[n - 1] = CR THEN SubSeq(seg, 1, n - 2)
    ELSE SubSeq(seg, 1, n - 1)

lines(s) == LET segs == split_inclusive(s) IN
            [i \in 1..Len(segs) |-> strip_line_ending(segs[i])]

(***************************************************************************)
(* parse_transcript_with_context: one action per path through the body of  *)
(* the for loop, and the return.                                           *)
(***************************************************************************)
Pending == [pending |-> TRUE]

\* The hook layer at rest: no hook program runs beside the transcript code
HookIdle ==
    /\ program = "none"
    /\ args = None
    /\ step = "idle"
    /\ input = None
    /\ feedback_messages = <<>>
    /\ commands = <<>>
    /\ output = None
    /\ call = None
    /\ stdout = <<>>
    /\ exit_status = None
    /\ returned = None
NoAnswers == [has_tool_uses |-> None, count_tool_uses |-> None, count_tool_results |-> None]

TranscriptParseError(n, line, e) ==
    [line_number |-> n, line_content |-> line, json_error |-> e]

Looping == pc = "loop" /\ line_idx < Len(lines(content))
ThisLine == lines(content)[line_idx + 1]

\* line_number: line_idx + 1, line_idx being enumerate()'s count over all lines
LineNumberZeroBased == line_idx

LineNumberAmongNonEmpty ==
    1 + Cardinality({i \in 1..line_idx : lines(content)[i] # <<>>})

LineNumber == line_idx + 1

\* The four paths through the loop: which one is taken
CanSkipBlank == Looping /\ TrimStart(ThisLine) = <<>>

CanSkipEmpty == Looping /\ ThisLine = <<>>
CanPushEntry == Looping /\ ThisLine # <<>> /\ parse_transcript_line(lib, ThisLine).ok
CanPushError == Looping /\ ThisLine # <<>> /\ ~parse_transcript_line(lib, ThisLine).ok
CanReturn == pc = "loop" /\ line_idx = Len(lines(content))

\* line.is_empty() => continue
SkipEmpty ==
    /\ CanSkipEmpty
    /\ line_idx' = line_idx + 1
    /\ UNCHANGED <<content, entries, errors, pc, decodeVars>>

PushEntryFirst ==
    /\ CanPushEntry
    /\ entries' = <<parse_transcript_line(lib, ThisLine).val>> \o entries
    /\ line_idx' = line_idx + 1
    /\ UNCHANGED <<content, errors, pc, decodeVars>>

\* Ok(entry) => entries.push(entry)
PushEntry ==
    /\ CanPushEntry
    /\ entries' = Append(entries, parse_transcript_line(lib, ThisLine).val)
    /\ line_idx' = line_idx + 1
    /\ UNCHANGED <<content, errors, pc, decodeVars>>

PushErrorAndStop ==
    /\ CanPushError
    /\ errors' = Append(errors, TranscriptParseError(LineNumber, ThisLine,
                            parse_transcript_line(lib, ThisLine).err))
    /\ line_idx' = line_idx + 1
    /\ pc' = "done"
    /\ UNCHANGED <<content, entries, decodeVars>>

\* Err(json_error) => errors.push(TranscriptParseError { .. })
PushError ==
    /\ CanPushError
    /\ errors' = Append(errors, TranscriptParseError(LineNumber, ThisLine,
                            parse_transcript_line(lib, ThisLine).err))
    /\ line_idx' = line_idx + 1
    /\ UNCHANGED <<content, entries, pc, decodeVars>>

\* the iterator is exhausted: TranscriptParseResult { entries, errors }
Return ==
    /\ CanReturn
    /\ pc' = "done"
    /\ UNCHANGED <<content, line_idx, entries, errors, decodeVars>>

\* Bounds of the input texts
MaxLen == 5

Alphabet == {LF, CR, SP, X, Doc(UserDoc), Doc(SummaryDoc), Doc(MissingTypeDoc)}

RECURSIVE Texts(_)
Texts(n) == IF n = 0 THEN {<<>>}
            ELSE LET shorter == Texts(n - 1) IN
                 shorter \cup {Append(t, ch) : t \in {u \in shorter : Len(u) = n - 1}, ch \in Alphabet}

Init ==
    /\ content \in Texts(MaxLen)
    /\ line_idx = 0
    /\ entries = <<>>
    /\ errors = <<>>
    /\ pc = "loop"
    /\ lib = CT
    /\ json_line = <<>>
    /\ result = Pending
    /\ answers = NoAnswers
    /\ HookIdle

Next == SkipEmpty \/ PushEntry \/ PushError \/ Return

Spec == Init /\ [][Next]_vars

(***************************************************************************)
(* Properties of parse_transcript_with_context                             *)
(***************************************************************************)
Done == pc = "done"
Decodes(line) == parse_transcript_line(lib, line).ok
NonEmptyLines == {i \in 1..Len(lines(content)) : lines(content)[i] # <<>>}
GoodLines == {i \in NonEmptyLines : Decodes(lines(content)[i])}
BadLines == {i \in NonEmptyLines : ~Decodes(lines(content)[i])}

RECURSIVE Ascending(_)
Ascending(S) == IF S = {} THEN <<>>
                ELSE LET m == CHOOSE x \in S : \A y \in S : x <= y IN
                     <<m>> \o Ascending(S \ {m})

\* C1: at the return there is exactly one entry per non-empty line that
\* decodes and exactly one error per non-empty line that does not (n - k
\* entries and k errors for k malformed lines among n non-empty ones); each
\* error carries the 1-based position of its line and that line's text.
C1_Isolation ==
    Done =>
        /\ Len(entries) = Cardinality(GoodLines)
        /\ Len(errors) = Cardinality(BadLines)
        /\ Len(entries) + Len(errors) = Cardinality(NonEmptyLines)
        /\ {errors[m].line_number : m \in 1..Len(errors)} = BadLines
        /\ \A m \in 1..Len(errors) :
              errors[m].line_content = lines(content)[errors[m].line_number]
        /\ \A i \in GoodLines : \E m \in 1..Len(entries) :
              entries[m] = parse_transcript_line(lib, lines(content)[i]).val

\* C1 witness: the parse of a text with well-formed lines and malformed
\* lines interleaved has returned.
C1_Witness ==
    /\ Done
    /\ Len(entries) >= 1
    /\ Len(errors) >= 2
    /\ \E i \in GoodLines : \E h, j \in BadLines : h < i /\ i < j

\* C2: after every step of the loop the entries are the decoded lines seen
\* so far, in line order, and the errors' line numbers increase strictly.
C2_OrderPreserved ==
    LET seen == Ascending({i \in GoodLines : i <= line_idx}) IN
    /\ Len(entries) = Len(seen)
    /\ \A m \in 1..Len(seen) :
          entries[m] = parse_transcript_line(lib, lines(content)[seen[m]]).val
    /\ \A a, b \in 1..Len(errors) :
          a < b => errors[a].line_number < errors[b].line_number

\* C2 witness: mid-loop, two different entries and an error are recorded.
C2_Witness ==
    /\ pc = "loop"
    /\ Len(errors) >= 1
    /\ Len(entries) >= 2
    /\ entries[1] # entries[2]

\* Number of line feeds in the first n characters of the text.
LineFeedsBefore(n) == Cardinality({p \in 1..n : content[p] = LF})

\* The text t stands in the input as a whole line starting at offset p.
IsLineAt(t, p) ==
    /\ p + Len(t) - 1 <= Len(content)
    /\ SubSeq(content, p, p + Len(t) - 1) = t
    /\ p = 1 \/ content[p - 1] = LF
    /\ LET q == p + Len(t) IN
       \/ q = Len(content) + 1
       \/ content[q] = LF
       \/ q < Len(content) /\ content[q] = CR /\ content[q + 1] = LF

\* C3: a blank line gives neither an entry nor an error, and an error's
\* line number is the physical position of its line: one more than the
\* number of line feeds that precede it, blank lines included.
C3_BlankLines ==
    /\ \A m \in 1..Len(errors) :
          /\ errors[m].line_content # <<>>
          /\ \E p \in 1..Len(content) :
                /\ IsLineAt(errors[m].line_content, p)
                /\ errors[m].line_number = LineFeedsBefore(p - 1) + 1
    /\ Len(entries) + Len(errors) = Cardinality({i \in NonEmptyLines : i <= line_idx})

\* C3 witness: an error was recorded for a line that follows a blank line.
C3_Witness ==
    /\ Done
    /\ \E m \in 1..Len(errors) : \E i \in 1..Len(lines(content)) :
          i < errors[m].line_number /\ lines(content)[i] = <<>>

\* C4: the parse terminates at the end of the input and not before: until
\* it has returned a step is always possible, every step either consumes
\* exactly the next line or returns, line_idx never passes the number of
\* lines, and it returns only once every line was consumed; a line that
\* fails to decode does not keep a later line from being recorded.
C4_RunsToEnd ==
    /\ [](Done \/ CanSkipEmpty \/ CanPushEntry \/ CanPushError \/ CanReturn)
    /\ [](line_idx <= Len(lines(content)))
    /\ [][/\ content' = content
          /\ pc = "loop"
          /\ \/ pc' = "loop" /\ line_idx' = line_idx + 1
             \/ pc' = "done" /\ line_idx' = line_idx]_vars
    /\ [](Done => line_idx = Len(lines(content)))
    /\ [](Done => \A i \in BadLines : \A j \in NonEmptyLines :
            i < j => \/ j \in {errors[m].line_number : m \in 1..Len(errors)}
                     \/ \E m \in 1..Len(entries) :
                           entries[m] = parse_transcript_line(lib, lines(content)[j]).val)

\* C4 witness: after an error on an earlier line a later line was decoded
\* and the parse has returned.
C4_Witness ==
    /\ Done
    /\ \E i \in BadLines : \E j \in GoodLines : i < j

(***************************************************************************)
(* The MessageContent queries (claude-transcript/src/lib.rs) and the       *)
(* content accessor they are reached through.                              *)
(***************************************************************************)
has_tool_uses(c) ==
    CASE c.tag = "Text" -> FALSE
      [] c.tag = "Blocks" -> \E i \in 1..Len(c.Blocks) : c.Blocks[i].tag = "ToolUse"

count_tool_uses_as_results(c) ==
    CASE c.tag = "Text" -> 0
      [] c.tag = "Blocks" ->
            Cardinality({i \in 1..Len(c.Blocks) : c.Blocks[i].tag = "ToolResult"})

count_tool_uses(c) ==
    CASE c.tag = "Text" -> 0
      [] c.tag = "Blocks" ->
            Cardinality({i \in 1..Len(c.Blocks) : c.Blocks[i].tag = "ToolUse"})

count_tool_results(c) ==
    CASE c.tag = "Text" -> 0
      [] c.tag = "Blocks" ->
            Cardinality({i \in 1..Len(c.Blocks) : c.Blocks[i].tag = "ToolResult"})

\* TranscriptMessage::content(): Option<&MessageContent> of either variant
\* (in tenx-hooks the message is a struct and content its field).
message_content(l, m) == IF l = TH THEN m.content ELSE Payload(m).content

\* The message of a decoded entry, for the entries that carry one.
HasMessage(e) == e.tag \in {"User", "Assistant"}
EntryContent(l, e) == message_content(l, Payload(e).message)

(***************************************************************************)
(* parse_transcript_line on one line, then the queries on its content.     *)
(***************************************************************************)
Decoded == pc = "line" /\ result # Pending /\ result.ok
DecodedContent ==
    /\ Decoded
    /\ HasMessage(result.val)
    /\ EntryContent(lib, result.val).tag = "Some"
TheContent == EntryContent(lib, result.val).val

ParseLine ==
    /\ pc = "line"
    /\ result = Pending
    /\ result' = parse_transcript_line(lib, json_line)
    /\ UNCHANGED <<content, line_idx, entries, errors, pc, lib, json_line, answers, hookVars>>

HasToolUses ==
    /\ DecodedContent
    /\ answers.has_tool_uses = None
    /\ answers' = [answers EXCEPT !.has_tool_uses = Some(has_tool_uses(TheContent))]
    /\ UNCHANGED <<content, line_idx, entries, errors, pc, lib, json_line, result, hookVars>>

CountToolUses ==
    /\ DecodedContent
    /\ answers.count_tool_uses = None
    /\ answers' = [answers EXCEPT !.count_tool_uses = Some(count_tool_uses(TheContent))]
    /\ UNCHANGED <<content, line_idx, entries, errors, pc, lib, json_line, result, hookVars>>

CountToolResults ==
    /\ DecodedContent
    /\ answers.count_tool_results = None
    /\ answers' = [answers EXCEPT !.count_tool_results = Some(count_tool_results(TheContent))]
    /\ UNCHANGED <<content, line_idx, entries, errors, pc, lib, json_line, result, hookVars>>

(***************************************************************************)
(* The documents the decoder is run on: the sample lines, every one of     *)
(* their keys dropped or given another value, an unknown key added, and    *)
(* message contents built from the blocks below.                           *)
(***************************************************************************)
MaxBlocks == 2

TextBlock == JObj([type |-> JStr("text"), text |-> JStr("hi")])
ToolUseBlock == JObj([type |-> JStr("tool_use"), id |-> JStr("toolu_1"),
                      name |-> JStr("Bash"), input |-> JObj([command |-> JStr("ls")])])
ToolResultItemDoc == JObj([type |-> JStr("text"), text |-> JStr("done")])
ToolResultTextBlock == JObj([type |-> JStr("tool_result"), tool_use_id |-> JStr("toolu_1"),
                             content |-> JStr("done")])
ToolResultArrayBlock == JObj([type |-> JStr("tool_result"), tool_use_id |-> JStr("toolu_1"),
                              content |-> JArr(<<ToolResultItemDoc>>)])
ToolResultNumberBlock == JObj([type |-> JStr("tool_result"), tool_use_id |-> JStr("toolu_1"),
                               content |-> JNum(7)])
ToolResultObjectBlock == JObj([type |-> JStr("tool_result"), tool_use_id |-> JStr("toolu_1"),
                               content |-> ToolResultItemDoc])
ThinkingBlock == JObj([type |-> JStr("thinking"), thinking |-> JStr("hm"),
                       signature |-> JStr("sig")])
ImageBlock == JObj([type |-> JStr("image"), text |-> JStr("hi")])
TextBlockWithoutText == JObj([type |-> JStr("text")])
UntypedBlock == JObj([text |-> JStr("hi")])
IndexedBlock == JObj([type |-> JNum(0), text |-> JStr("hi")])

BlockDocs == {TextBlock, ToolUseBlock, ToolResultTextBlock, ToolResultArrayBlock,
              ToolResultNumberBlock, ToolResultObjectBlock, ThinkingBlock, ImageBlock,
              TextBlockWithoutText, UntypedBlock, IndexedBlock}

SeqsUpTo(S, n) == UNION {[1..m -> S] : m \in 0..n}

ContentDocs ==
    {JStr("hello"), JNum(7), JBool(TRUE), JNull, TextBlock}
        \cup {JArr(b) : b \in SeqsUpTo(BlockDocs, MaxBlocks)}

OtherValues == {JNum(0), JStr("zzz"), JNull, JBool(TRUE), JArr(<<>>)}

Mutations(j) ==
    {j} \cup {Without(j, key) : key \in Keys(j)}
        \cup {With(j, key, v) : key \in Keys(j), v \in OtherValues}
        \cup {With(j, "extra", JStr("z"))}

RichAssistantMessageDoc ==
    With(With(With(AssistantMessageDoc, "thinking", JStr("let me see")),
         "tool_uses", JArr(<<JObj([toolName |-> JStr("bash"),
                                   toolInput |-> JObj([command |-> JStr("ls")])])>>)),
         "code_outputs", JArr(<<JObj([code |-> JStr("ls"), output |-> JStr("a.txt")])>>))

MessageDocs ==
    Mutations(UserMessageDoc) \cup Mutations(AssistantMessageDoc)
        \cup Mutations(RichAssistantMessageDoc)
        \cup {With(UserMessageDoc, "content", c) : c \in ContentDocs}
        \cup {With(AssistantMessageDoc, "content", c) : c \in ContentDocs}
        \cup {JArr(<<JStr("user"), JStr("hello")>>),
              With(AssistantMessageDoc, "usage",
                   JArr(<<JNull, JNull, JNum(1), JNum(2), JStr("standard")>>))}

EntryDocs ==
    Mutations(UserDoc) \cup Mutations(AssistantDoc) \cup Mutations(SystemDoc)
        \cup Mutations(SummaryDoc)
        \cup {Without(Without(SystemDoc, "level"), "toolUseID")}
        \cup Mutations(With(AssistantDoc, "isApiErrorMessage", JBool(TRUE)))
        \cup Mutations(With(With(UserDoc, "parentUuid", JStr("parent-123")),
                            "toolUseResult", JObj([wasInterrupted |-> JBool(FALSE)])))

OtherLines ==
    {JStr("user"), JNum(1), JNull, JBool(TRUE), JArr(<<>>), MissingTypeDoc,
     JArr(<<JStr("summary"), JStr("Test summary"), JStr("leaf-123")>>),
     JArr(<<JStr("summary"), JStr("Test summary")>>),
     JArr(<<JNum(2), JStr("Test summary"), JStr("leaf-123")>>)}

DecodeInputs ==
    EntryDocs \cup OtherLines
        \cup {With(e, "message", m) : e \in {UserDoc, AssistantDoc}, m \in MessageDocs}

DecodeInit ==
    /\ content = <<>>
    /\ line_idx = 0
    /\ entries = <<>>
    /\ errors = <<>>
    /\ pc = "line"
    /\ lib \in {CT, TH}
    /\ json_line \in {<<Doc(j)>> : j \in DecodeInputs}
    /\ result = Pending
    /\ answers = NoAnswers
    /\ HookIdle

DecodeNext == ParseLine \/ HasToolUses \/ CountToolUses \/ CountToolResults

DecodeSpec == DecodeInit /\ [][DecodeNext]_vars

(***************************************************************************)
(* Properties of parse_transcript_line and of the content queries          *)
(***************************************************************************)
TheDoc == json_line[1].j
Decided == pc = "line" /\ result # Pending
LineDecodes(l, j) == parse_transcript_line(l, <<Doc(j)>>).ok
IsObject(j) == j.k = "obj"
HasString(j, key, x) == IsObject(j) /\ key \in Keys(j) /\ j.o[key] = JStr(x)

(***************************************************************************)
(* What a line must look like to decode, stated on the JSON value alone.   *)
(* With strict, a struct or a tagged enum is a JSON object and a           *)
(* discriminant is the variant's name; without it, a struct may also be an *)
(* array of its fields in declaration order, a tagged enum an array that   *)
(* starts with the discriminant, and a discriminant below the top level    *)
(* the variant's index.                                                    *)
(***************************************************************************)
RECURSIVE Conforms(_, _, _, _)
RECURSIVE ConformsFields(_, _, _)

ConformsFields(fs, j, strict) ==
    \/ /\ j.k = "obj"
       /\ \A i \in 1..Len(fs) :
             IF fs[i].wire \in Keys(j)
             THEN Conforms(fs[i].ty, j.o[fs[i].wire], strict, FALSE)
             ELSE fs[i].ty.t = "Option"
    \/ /\ ~strict
       /\ j.k = "arr"
       /\ Len(j.a) = Len(fs)
       /\ \A i \in 1..Len(fs) : Conforms(fs[i].ty, j.a[i], strict, FALSE)

Names(d, i, tagv, strict, top) ==
    \/ tagv = JStr(d.variants[i].wire)
    \/ ~strict /\ ~top /\ tagv = JNum(i - 1)

Conforms(ty, j, strict, top) ==
    CASE ty.t = "String" -> j.k = "str"
      [] ty.t = "bool" -> j.k = "bool"
      [] ty.t = "u64" -> j.k = "num" /\ j.n >= 0
      [] ty.t = "Value" -> TRUE
      [] ty.t = "Option" -> j.k = "null" \/ Conforms(ty.of, j, strict, top)
      [] ty.t = "Vec" -> j.k = "arr" /\ \A i \in 1..Len(j.a) : Conforms(ty.of, j.a[i], strict, top)
      [] ty.t = "named" ->
            LET d == TypeDef(CT, ty.name) IN
            CASE d.kind = "struct" -> ConformsFields(d.fields, j, strict)
              [] d.kind = "untagged" ->
                    \E i \in 1..Len(d.variants) : Conforms(d.variants[i].ty, j, strict, FALSE)
              [] d.kind = "tagged" ->
                    \E i \in 1..Len(d.variants) :
                        LET fs == TypeDef(CT, d.variants[i].fields).fields IN
                        \/ /\ j.k = "obj"
                           /\ d.tag \in Keys(j)
                           /\ Names(d, i, j.o[d.tag], strict, top)
                           /\ ConformsFields(fs, Without(j, d.tag), strict)
                        \/ /\ ~strict
                           /\ j.k = "arr"
                           /\ Len(j.a) >= 1
                           /\ Names(d, i, Head(j.a), strict, top)
                           /\ ConformsFields(fs, JArr(Tail(j.a)), strict)

EntryTypes == {JStr("user"), JStr("assistant"), JStr("system"), JStr("summary")}
HasEntryType(j) == IsObject(j) /\ "type" \in Keys(j) /\ j.o.type \in EntryTypes

\* The fields declared for the entry type the object names.
EntryFields(j) ==
    LET i == CHOOSE i \in 1..Len(TranscriptEntry.variants) :
                 TranscriptEntry.variants[i].wire = j.o.type.s
    IN TypeDef(CT, TranscriptEntry.variants[i].fields).fields
FieldIndices(j) == 1..Len(EntryFields(j))
Declared(j) == {EntryFields(j)[i].wire : i \in FieldIndices(j)} \cup {"type"}

\* C5 as stated: a line decodes exactly when it is a JSON object whose type
\* is one of the four names and whose required fields are all present with
\* values of their JSON types.
C5_ObjectsOnly ==
    (Decided /\ lib = CT) =>
        (result.ok <=> Conforms(TNamed("TranscriptEntry"), TheDoc, TRUE, TRUE))

\* C5: a line decodes exactly when it is an object (or an array led by the
\* type) naming one of the four entry types whose required fields are all
\* present with values their types accept, where a nested struct may be
\* given as an array of its fields and a nested discriminant as the
\* variant's index.  Every well-typed object decodes; on an object a
\* missing type, an unrecognized type, an absent required field or a
\* wrongly typed field fails, and a key the entry does not declare never
\* changes the outcome.
C5_DecodesIff ==
    (Decided /\ lib = CT) =>
        /\ result.ok <=> Conforms(TNamed("TranscriptEntry"), TheDoc, FALSE, TRUE)
        /\ Conforms(TNamed("TranscriptEntry"), TheDoc, TRUE, TRUE) => result.ok
        /\ ~IsObject(TheDoc) /\ TheDoc.k # "arr" => ~result.ok
        /\ IsObject(TheDoc) /\ ~HasEntryType(TheDoc) => ~result.ok
        /\ HasEntryType(TheDoc) =>
              /\ \A i \in FieldIndices(TheDoc) :
                    LET f == EntryFields(TheDoc)[i] IN
                    /\ (f.wire \notin Keys(TheDoc) /\ f.ty.t # "Option") => ~result.ok
                    /\ (/\ f.wire \in Keys(TheDoc)
                        /\ ~Conforms(f.ty, TheDoc.o[f.wire], FALSE, FALSE)) => ~result.ok
              /\ \A key \in Keys(TheDoc) \ Declared(TheDoc) :
                    result.ok = LineDecodes(CT, Without(TheDoc, key))

\* C5 witness: the array form of a summary line was decoded.
C5_Witness ==
    /\ Decided /\ lib = CT
    /\ TheDoc = JArr(<<JStr("summary"), JStr("Test summary"), JStr("leaf-123")>>)
    /\ result.ok
    /\ result.val.tag = "Summary"

\* An optional key is absent, or present with a value of the given kind.
AbsentOr(j, key, kind) == key \notin Keys(j) \/ j.o[key].k = kind
WireString(j, key) == IF key \in Keys(j) THEN Some(j.o[key].s) ELSE None
WireBool(j, key) == IF key \in Keys(j) THEN Some(j.o[key].b) ELSE None

\* C6: a system entry decodes with or without level and toolUseID, an
\* assistant entry with or without requestId and isApiErrorMessage (it
\* decodes exactly when the line without them does); an absent optional
\* field decodes to None and a present one to its wire value.
C6_OptionalFields ==
    (Decided /\ lib = CT) =>
        /\ (/\ HasString(TheDoc, "type", "system")
            /\ AbsentOr(TheDoc, "level", "str")
            /\ AbsentOr(TheDoc, "toolUseID", "str")) =>
                /\ result.ok = LineDecodes(CT, Without(Without(TheDoc, "level"), "toolUseID"))
                /\ result.ok =>
                      /\ result.val.tag = "System"
                      /\ result.val.System.level = WireString(TheDoc, "level")
                      /\ result.val.System.tool_use_id = WireString(TheDoc, "toolUseID")
        /\ (/\ HasString(TheDoc, "type", "assistant")
            /\ AbsentOr(TheDoc, "requestId", "str")
            /\ AbsentOr(TheDoc, "isApiErrorMessage", "bool")) =>
                /\ result.ok = LineDecodes(CT, Without(Without(TheDoc, "requestId"),
                                                       "isApiErrorMessage"))
                /\ result.ok =>
                      /\ result.val.tag = "Assistant"
                      /\ result.val.Assistant.request_id = WireString(TheDoc, "requestId")
                      /\ result.val.Assistant.is_api_error_message =
                            WireBool(TheDoc, "isApiErrorMessage")

\* C6 witness: a system line with neither level nor toolUseID was decoded.
C6_Witness ==
    /\ Decided /\ lib = CT
    /\ HasString(TheDoc, "type", "system")
    /\ "level" \notin Keys(TheDoc) /\ "toolUseID" \notin Keys(TheDoc)
    /\ result.ok
    /\ result.val.System.level = None

\* The variant a discriminant string names.
EntryKind(x) == CASE x = "user" -> "User" [] x = "assistant" -> "Assistant"
                  [] x = "system" -> "System" [] x = "summary" -> "Summary"
                  [] OTHER -> "none"
NamedRole(j) == IsObject(j) /\ "role" \in Keys(j) /\ j.o.role \in {JStr("user"), JStr("assistant")}
MessageDecodes(l, m) == Deserialize(l, TNamed("TranscriptMessage"), m, TRUE).ok
OwnMessage(j) == IF j.o.type = JStr("user") THEN UserMessageDoc ELSE AssistantMessageDoc

\* C7: the outer type and the nested role are never checked against each
\* other: an entry of type user or assistant decodes exactly when its own
\* fields decode and its message decodes as a message of the role it
\* names, whichever role that is; the entry gets the kind the type names
\* and its message the variant the role names.
C7_NoCrossValidation ==
    (/\ Decided /\ lib = CT
     /\ IsObject(TheDoc) /\ "type" \in Keys(TheDoc)
     /\ TheDoc.o.type \in {JStr("user"), JStr("assistant")}
     /\ "message" \in Keys(TheDoc) /\ NamedRole(TheDoc.o.message)) =>
        /\ result.ok = (/\ LineDecodes(CT, With(TheDoc, "message", OwnMessage(TheDoc)))
                        /\ MessageDecodes(CT, TheDoc.o.message))
        /\ result.ok =>
              /\ result.val.tag = EntryKind(TheDoc.o.type.s)
              /\ "tag" \in DOMAIN Payload(result.val).message
              /\ Payload(result.val).message.tag = EntryKind(TheDoc.o.message.o.role.s)

\* C7 witness: a line of type assistant whose message has role user decoded.
C7_Witness ==
    /\ Decided /\ lib = CT
    /\ HasString(TheDoc, "type", "assistant")
    /\ "message" \in Keys(TheDoc)
    /\ HasString(TheDoc.o.message, "role", "user")
    /\ result.ok
    /\ result.val.tag = "Assistant"
    /\ result.val.Assistant.message.tag = "User"

\* The line is an entry with an object for message that has a content key.
HasContentKey(j) ==
    /\ IsObject(j) /\ "message" \in Keys(j)
    /\ IsObject(j.o.message) /\ "content" \in Keys(j.o.message)
RawContent(j) == j.o.message.o.content
WithoutContent(j) == With(j, "message", Without(j.o.message, "content"))
BlockDecodes(l, b) == Deserialize(l, TNamed("ContentBlock"), b, TRUE).ok
ItemDecodes(l, b) == Deserialize(l, TNamed("ToolResultItem"), b, TRUE).ok

\* A raw tool_result block whose other fields are in order.
IsToolResultDoc(b) ==
    /\ HasString(b, "type", "tool_result")
    /\ "content" \in Keys(b)
    /\ "tool_use_id" \in Keys(b) /\ b.o.tool_use_id.k = "str"
    /\ AbsentOr(b, "is_error", "bool")

\* C8: content is told apart by its JSON shape alone.  Where the line
\* decodes without its content, it decodes with it exactly when the content
\* is null, a string, or an array whose every element decodes as a block;
\* a string gives Text, an array gives Blocks, and a number, a boolean or an
\* object fails.  Likewise a tool_result block decodes exactly when its
\* content is a string or an array of {type, text} items.
C8_ContentByShape ==
    (Decided /\ lib = CT /\ HasContentKey(TheDoc) /\ LineDecodes(CT, WithoutContent(TheDoc))) =>
        LET c == RawContent(TheDoc) IN
        /\ c.k = "str" => result.ok /\ EntryContent(CT, result.val) = Some(Variant("Text", c.s))
        /\ c.k = "arr" =>
              /\ result.ok = (\A i \in 1..Len(c.a) : BlockDecodes(CT, c.a[i]))
              /\ result.ok =>
                    /\ EntryContent(CT, result.val).tag = "Some"
                    /\ EntryContent(CT, result.val).val.tag = "Blocks"
                    /\ Len(EntryContent(CT, result.val).val.Blocks) = Len(c.a)
              /\ \A i \in 1..Len(c.a) : IsToolResultDoc(c.a[i]) =>
                    LET x == c.a[i].o.content IN
                    /\ BlockDecodes(CT, c.a[i]) =
                          \/ x.k = "str"
                          \/ x.k = "arr" /\ \A h \in 1..Len(x.a) : ItemDecodes(CT, x.a[h])
                    /\ result.ok =>
                          EntryContent(CT, result.val).val.Blocks[i].ToolResult.content.tag
                              = (IF x.k = "str" THEN "Text" ELSE "Array")
        /\ c.k \in {"num", "bool", "obj"} => ~result.ok
        /\ c.k = "null" => result.ok /\ EntryContent(CT, result.val) = None

\* C8 witness: an array content holding a tool_result with an array content
\* and one with a string content was decoded.
C8_Witness ==
    /\ Decided /\ lib = CT /\ result.ok
    /\ HasContentKey(TheDoc)
    /\ RawContent(TheDoc) = JArr(<<ToolResultArrayBlock, ToolResultTextBlock>>)
    /\ EntryContent(CT, result.val).val.Blocks[1].ToolResult.content.tag = "Array"
    /\ EntryContent(CT, result.val).val.Blocks[2].ToolResult.content.tag = "Text"

\* A raw block that names one of the four block types and carries that
\* type's required fields with values of their types.
NamesBlockType(b) ==
    \E x \in {"text", "tool_use", "tool_result", "thinking"} : HasString(b, "type", x)
NamesOtherType(b) ==
    IsObject(b) /\ "type" \in Keys(b) /\ b.o.type.k = "str" /\ ~NamesBlockType(b)

\* C9: in either copy of the model, a block whose type is text, tool_use,
\* tool_result or thinking (with its required fields) decodes, and a
\* content array holding a block of another type fails the whole line.
C9_BlockTypes ==
    (/\ Decided /\ HasContentKey(TheDoc) /\ RawContent(TheDoc).k = "arr"
     /\ LineDecodes(lib, WithoutContent(TheDoc))) =>
        LET c == RawContent(TheDoc) IN
        /\ (\A i \in 1..Len(c.a) : NamesBlockType(c.a[i]) /\ BlockDecodes(CT, c.a[i]))
                => result.ok
        /\ (\E i \in 1..Len(c.a) : NamesOtherType(c.a[i])) => ~result.ok

RECURSIVE CountTag(_, _)
CountTag(blocks, tag) ==
    IF blocks = <<>> THEN 0
    ELSE (IF Head(blocks).tag = tag THEN 1 ELSE 0) + CountTag(Tail(blocks), tag)

\* C10: count_tool_uses is the number of tool_use blocks, count_tool_results
\* the number of tool_result blocks, has_tool_uses holds exactly when
\* count_tool_uses > 0, a bare string gives false, 0 and 0, and no query
\* changes the content it is asked about.
C10_Queries ==
    /\ [](DecodedContent =>
            LET blocks == IF TheContent.tag = "Blocks" THEN TheContent.Blocks ELSE <<>> IN
            /\ answers.count_tool_uses \in {None, Some(CountTag(blocks, "ToolUse"))}
            /\ answers.count_tool_results \in {None, Some(CountTag(blocks, "ToolResult"))}
            /\ answers.has_tool_uses \in {None, Some(CountTag(blocks, "ToolUse") > 0)}
            /\ TheContent.tag = "Text" =>
                  /\ answers.has_tool_uses \in {None, Some(FALSE)}
                  /\ answers.count_tool_uses \in {None, Some(0)}
                  /\ answers.count_tool_results \in {None, Some(0)})
    /\ [][answers' # answers => result' = result /\ json_line' = json_line]_vars

\* C10 witness: all three queries were answered for a content with one
\* tool_use block and one tool_result block.
C10_Witness ==
    /\ DecodedContent
    /\ answers = [has_tool_uses |-> Some(TRUE), count_tool_uses |-> Some(1),
                  count_tool_results |-> Some(1)]

(***************************************************************************)
(* Strings.  A String is a sequence of characters; len() counts the bytes  *)
(* of its UTF-8 encoding and chars() walks its characters.                 *)
(***************************************************************************)
TwoByteChars == {"é"}
len_utf8(ch) == IF ch \in TwoByteChars THEN 2 ELSE 1

\* str::len(): the length in bytes
RECURSIVE str_len(_)
str_len(s) == IF s = "" THEN 0 ELSE len_utf8(Head(s)) + str_len(Tail(s))

\* s.chars().take(n).collect::<String>()
chars_take(s, n) == SubSeq(s, 1, IF Len(s) < n THEN Len(s) ELSE n)

\* [String]::join(sep)
RECURSIVE concat(_, _)
concat(parts, sep) ==
    IF parts = <<>> THEN "" ELSE Head(parts) \o concat(Tail(parts), sep)

RECURSIVE join(_, _)
join(parts, sep) ==
    IF parts = <<>> THEN ""
    ELSE IF Len(parts) = 1 THEN parts[1]
    ELSE parts[1] \o sep \o join(Tail(parts), sep)

\* format!("{n}") of an unsigned number
format_usize(n) == ToString(n)

(***************************************************************************)
(* MessageContent::as_text and TranscriptEntry::description (tenx-hooks).  *)
(***************************************************************************)
\* the closure of as_text: the string one block contributes
block_text(b) ==
    CASE b.tag = "Text" -> b.Text.text
      [] b.tag = "ToolUse" -> b.ToolUse.name
      [] b.tag = "ToolResult" ->
            LET c == b.ToolResult.content IN
            CASE c.tag = "Text" -> c.Text
              [] c.tag = "Array" -> join([i \in 1..Len(c.Array) |-> c.Array[i].text], " ")

as_text(c) ==
    CASE c.tag = "Text" -> c.Text
      [] c.tag = "Blocks" -> join([i \in 1..Len(c.Blocks) |-> block_text(c.Blocks[i])], " ")

PreviewChars == 50

description(e) ==
    CASE e.tag = "System" -> "System[" \o e.System.level \o "]"
      [] e.tag = "User" ->
            LET c == e.User.message.content
                text == as_text(c.val)
                truncated == chars_take(text, PreviewChars)
                preview == IF c = None THEN "No content"
                           ELSE IF str_len(text) > PreviewChars THEN truncated \o "..."
                           ELSE truncated
            IN "User: " \o preview
      [] e.tag = "Assistant" ->
            LET m == e.Assistant.message
                has_thinking == m.thinking # None
                tool_uses_count == IF m.tool_uses = None THEN 0 ELSE Len(m.tool_uses.val)
                content_tool_count == IF m.content = None THEN 0
                                      ELSE count_tool_uses(m.content.val)
                total_tool_count == tool_uses_count + content_tool_count
                code_count == IF m.code_outputs = None THEN 0 ELSE Len(m.code_outputs.val)
                parts == <<"Assistant">>
                    \o (IF has_thinking THEN <<"with thinking">> ELSE <<>>)
                    \o (IF total_tool_count > 0
                        THEN <<format_usize(total_tool_count) \o " tool uses">> ELSE <<>>)
                    \o (IF code_count > 0
                        THEN <<format_usize(code_count) \o " code outputs">> ELSE <<>>)
            IN join(parts, ": ")
      [] e.tag = "Summary" -> "Summary: " \o e.Summary.summary

(***************************************************************************)
(* One line decoded, then the views of the decoded entry.                  *)
(***************************************************************************)
NoViews == [as_text |-> None, description |-> None, to_string |-> None, reparsed |-> None,
            missing |-> None]

AsText ==
    /\ lib = TH
    /\ DecodedContent
    /\ answers.as_text = None
    /\ answers' = [answers EXCEPT !.as_text = Some(as_text(TheContent))]
    /\ UNCHANGED <<content, line_idx, entries, errors, pc, lib, json_line, result, hookVars>>

Description ==
    /\ lib = TH
    /\ Decoded
    /\ answers.description = None
    /\ answers' = [answers EXCEPT !.description = Some(description(result.val))]
    /\ UNCHANGED <<content, line_idx, entries, errors, pc, lib, json_line, result, hookVars>>

(***************************************************************************)
(* #[derive(Serialize)]: a struct is an object keyed by the wire names,    *)
(* without the fields that are None and marked skip_serializing_if; a      *)
(* tagged enum adds its tag to the variant's object; an untagged enum is   *)
(* its payload; None is null.                                              *)
(***************************************************************************)
SerializeKeyUnrenamed(f) == f.rust

SerializeKey(f) == f.wire

RECURSIVE Serialize(_, _, _)
RECURSIVE SerializeStruct(_, _, _)

\* The fields of the struct value v as a map from key to JSON value.
skip_every_none(f, x) == f.ty.t = "Option" /\ x = None

\* skip_serializing_if = "Option::is_none", on the fields that carry it
skip_serializing(f, x) == f.skip /\ x = None

SerializeStruct(l, fs, v) ==
    LET kept == {i \in 1..Len(fs) : ~skip_serializing(fs[i], v[fs[i].rust])}
    IN [key \in {SerializeKey(fs[i]) : i \in kept} |->
           LET i == CHOOSE i \in kept : SerializeKey(fs[i]) = key
           IN Serialize(l, fs[i].ty, v[fs[i].rust])]

Serialize(l, ty, v) ==
    CASE ty.t = "String" -> JStr(v)
      [] ty.t = "bool" -> JBool(v)
      [] ty.t = "u64" -> JNum(v)
      [] ty.t = "Value" -> v
      [] ty.t = "HashMap" -> JObj(v)
      [] ty.t = "unit" ->
            JStr(ty.variants[CHOOSE i \in 1..Len(ty.variants) : ty.variants[i].rust = v].wire)
      [] ty.t = "Option" -> IF v = None THEN JNull ELSE Serialize(l, ty.of, v.val)
      [] ty.t = "Vec" -> JArr([i \in 1..Len(v) |-> Serialize(l, ty.of, v[i])])
      [] ty.t = "named" ->
            LET d == TypeDef(l, ty.name) IN
            CASE d.kind = "struct" -> JObj(SerializeStruct(l, d.fields, v))
              [] d.kind = "tagged" ->
                    LET i == CHOOSE i \in 1..Len(d.variants) : d.variants[i].rust = v.tag
                        o == SerializeStruct(l, TypeDef(l, d.variants[i].fields).fields,
                                             Payload(v))
                    IN JObj([key \in DOMAIN o \cup {d.tag} |->
                                IF key = d.tag THEN JStr(d.variants[i].wire) ELSE o[key]])
              [] d.kind = "untagged" ->
                    LET i == CHOOSE i \in 1..Len(d.variants) : d.variants[i].rust = v.tag
                    IN Serialize(l, d.variants[i].ty, Payload(v))

\* serde_json::to_string(&entry): the compact text of the entry's JSON
to_string(l, e) == <<Doc(Serialize(l, TNamed("TranscriptEntry"), e))>>

WriteLine ==
    /\ Decoded
    /\ answers.to_string = None
    /\ answers' = [answers EXCEPT !.to_string = Some(to_string(lib, result.val))]
    /\ UNCHANGED <<content, line_idx, entries, errors, pc, lib, json_line, result, hookVars>>

\* the written line read again
Reparse ==
    /\ Decoded
    /\ answers.to_string # None
    /\ answers.reparsed = None
    /\ answers' = [answers EXCEPT
                      !.reparsed = Some(parse_transcript_line(lib, answers.to_string.val))]
    /\ UNCHANGED <<content, line_idx, entries, errors, pc, lib, json_line, result, hookVars>>

(***************************************************************************)
(* The coverage validator.  findMissingFields serializes the typed entry   *)
(* and walks the raw tree and the serialized tree in lock-step; its        *)
(* findings are the paths of the raw tree that have no counterpart.        *)
(***************************************************************************)
IsContainer(j) == j.k \in {"obj", "arr"}
IndexPathFromOne(prefix, i) == prefix \o "[" \o ToString(i) \o "]"

IndexPath(prefix, i) == prefix \o "[" \o ToString(i - 1) \o "]"

\* the walk, taking a differing scalar for a gap as well
RECURSIVE WalkValues(_, _, _)
WalkValues(raw, typed, pathPrefix) ==
    IF raw.k = "obj" /\ typed.k = "obj" THEN
        {pathPrefix \o key : key \in Keys(raw) \ Keys(typed)}
            \cup {pathPrefix \o key : key \in {x \in Keys(raw) \cap Keys(typed) :
                                                  raw.o[x] # typed.o[x]}}
            \cup UNION {WalkValues(raw.o[key], typed.o[key], pathPrefix \o key \o ".") :
                          key \in Keys(raw) \cap Keys(typed)}
    ELSE IF raw.k = "arr" /\ typed.k = "arr" THEN
        {IndexPath(pathPrefix, i) : i \in (Len(typed.a) + 1)..Len(raw.a)}
            \cup UNION {WalkValues(raw.a[i], typed.a[i], IndexPath(pathPrefix, i) \o ".") :
                          i \in 1..(IF Len(raw.a) < Len(typed.a) THEN Len(raw.a)
                                    ELSE Len(typed.a))}
    ELSE {}

WalkKeysOnly(raw, typed, pathPrefix) ==
    IF raw.k = "obj" /\ typed.k = "obj"
    THEN {pathPrefix \o key : key \in Keys(raw) \ Keys(typed)}
    ELSE {}

RECURSIVE Walk(_, _, _)
Walk(raw, typed, pathPrefix) ==
    IF raw.k = "obj" /\ typed.k = "obj" THEN
        {pathPrefix \o key : key \in Keys(raw) \ Keys(typed)}
            \cup UNION {Walk(raw.o[key], typed.o[key], pathPrefix \o key \o ".") :
                          key \in {x \in Keys(raw) \cap Keys(typed) :
                                      IsContainer(raw.o[x]) \/ IsContainer(typed.o[x])}}
    ELSE IF raw.k = "arr" /\ typed.k = "arr" THEN
        {IndexPath(pathPrefix, i) : i \in (Len(typed.a) + 1)..Len(raw.a)}
            \cup UNION {Walk(raw.a[i], typed.a[i], IndexPath(pathPrefix, i) \o ".") :
                          i \in 1..(IF Len(raw.a) < Len(typed.a) THEN Len(raw.a)
                                    ELSE Len(typed.a))}
    ELSE {}

findMissingFields(l, raw, typed) == Walk(raw, Serialize(l, TNamed("TranscriptEntry"), typed), "")

FindMissingFields ==
    /\ Decoded
    /\ answers.missing = None
    /\ answers' = [answers EXCEPT !.missing = Some(findMissingFields(lib, TheDoc, result.val))]
    /\ UNCHANGED <<content, line_idx, entries, errors, pc, lib, json_line, result, hookVars>>

\* The lines to view: texts around the preview length, block lists, and
\* assistant messages with and without thinking, tool uses and code outputs.
RECURSIVE Repeat(_, _)
Repeat(ch, n) == IF n = 0 THEN "" ELSE ch \o Repeat(ch, n - 1)

ViewTexts == {"", "hello", Repeat("a", 49), Repeat("a", 50), Repeat("a", 51),
              Repeat("a", 60), Repeat("é", 26), Repeat("é", 50), Repeat("é", 51),
              Repeat("a", 48) \o "é"}

ToolResultTwoItemsBlock ==
    JObj([type |-> JStr("tool_result"), tool_use_id |-> JStr("toolu_1"),
          content |-> JArr(<<ToolResultItemDoc,
                             JObj([type |-> JStr("text"), text |-> JStr("again")])>>)])
ToolResultNoItemsBlock ==
    JObj([type |-> JStr("tool_result"), tool_use_id |-> JStr("toolu_1"),
          content |-> JArr(<<>>)])
EmptyTextBlock == JObj([type |-> JStr("text"), text |-> JStr("")])

ExtraTextBlock == JObj([type |-> JStr("text"), text |-> JStr("hi"), extra |-> JStr("z")])

ViewBlocks == {TextBlock, EmptyTextBlock, ExtraTextBlock, ToolUseBlock, ToolResultTextBlock,
               ToolResultArrayBlock, ToolResultTwoItemsBlock, ToolResultNoItemsBlock,
               ThinkingBlock}

ViewContents ==
    {JStr(t) : t \in ViewTexts} \cup {JArr(b) : b \in SeqsUpTo(ViewBlocks, MaxBlocks)}

ToolUseDoc == JObj([toolName |-> JStr("bash"), toolInput |-> JObj([command |-> JStr("ls")])])
CodeOutputDoc == JObj([code |-> JStr("ls"), output |-> JStr("a.txt")])

\* m with key set to each of the values, or left without the key
Varied(S, key, vals) == S \cup {With(m, key, v) : m \in S, v \in vals}

ViewAssistantMessages ==
    Varied(Varied(Varied(
        {AssistantMessageDoc, Without(AssistantMessageDoc, "content"),
         With(AssistantMessageDoc, "content", JArr(<<ToolUseBlock>>)),
         With(AssistantMessageDoc, "content", JArr(<<ToolUseBlock, TextBlock>>)),
         With(AssistantMessageDoc, "content", JArr(<<ToolUseBlock, ToolUseBlock>>))},
        "thinking", {JStr("let me see")}),
        "tool_uses", {JArr(<<>>), JArr(<<ToolUseDoc>>), JArr(<<ToolUseDoc, ToolUseDoc>>)}),
        "code_outputs", {JArr(<<>>), JArr(<<CodeOutputDoc>>),
                         JArr(<<CodeOutputDoc, CodeOutputDoc>>)})

ViewInputs ==
    {With(UserDoc, "message", With(UserMessageDoc, "content", c)) : c \in ViewContents}
        \cup {With(UserDoc, "message", Without(UserMessageDoc, "content"))}
        \cup {With(AssistantDoc, "message", m) : m \in ViewAssistantMessages}
        \cup {SystemDoc, Without(SystemDoc, "level"), With(SystemDoc, "level", JStr("")),
              With(SystemDoc, "level", JStr("warning")), SummaryDoc,
              With(SummaryDoc, "summary", JStr(""))}
        \cup DecodeInputs

ViewInit ==
    /\ content = <<>>
    /\ line_idx = 0
    /\ entries = <<>>
    /\ errors = <<>>
    /\ pc = "line"
    /\ lib \in {CT, TH}
    /\ json_line \in {<<Doc(j)>> : j \in ViewInputs}
    /\ result = Pending
    /\ answers = NoViews
    /\ HookIdle

ViewNext ==
    ParseLine \/ AsText \/ Description \/ WriteLine \/ Reparse \/ FindMissingFields

ViewSpec == ViewInit /\ [][ViewNext]_vars

(***************************************************************************)
(* Properties of the views                                                 *)
(***************************************************************************)
\* Where part i starts in the space-joined string (counted from 0).
RECURSIVE Offset(_, _)
Offset(parts, i) == IF i <= 1 THEN 0 ELSE Offset(parts, i - 1) + Len(parts[i - 1]) + 1

\* s is the parts in order with exactly one space between neighbours.
SpaceJoined(parts, s) ==
    /\ Len(s) = Offset(parts, Len(parts) + 1) - (IF parts = <<>> THEN 0 ELSE 1)
    /\ \A i \in 1..Len(parts) :
          SubSeq(s, Offset(parts, i) + 1, Offset(parts, i) + Len(parts[i])) = parts[i]
    /\ \A i \in 2..Len(parts) : SubSeq(s, Offset(parts, i), Offset(parts, i)) = " "

\* What a raw block of the line contributes, read off the JSON.
RawItemTexts(x) == [i \in 1..Len(x.a) |-> x.a[i].o.text.s]
RawBlockKind(b) ==
    IF b.o.type.k = "str" THEN b.o.type.s
    ELSE <<"text", "tool_use", "tool_result">>[b.o.type.n + 1]
RawBlockIs(b, s) ==
    CASE RawBlockKind(b) = "text" -> s = b.o.text.s
      [] RawBlockKind(b) = "tool_use" -> s = b.o.name.s
      [] RawBlockKind(b) = "tool_result" ->
            IF b.o.content.k = "str" THEN s = b.o.content.s
            ELSE SpaceJoined(RawItemTexts(b.o.content), s)

\* C11: as_text gives a bare string back unchanged and, for a block list,
\* the blocks' strings in block order with one space between them: a text
\* block gives its text, a tool_use block its name, a tool_result block its
\* text (its items' texts with one space between them); every block variant
\* has a string and the empty list gives the empty string.
C11_AsText ==
    (lib = TH /\ DecodedContent /\ HasContentKey(TheDoc) /\ answers.as_text # None) =>
        LET c == RawContent(TheDoc)
            s == answers.as_text.val
        IN /\ c.k = "str" => s = c.s
           /\ c = JArr(<<>>) => s = ""
           /\ c.k = "arr" =>
                 \E parts \in [1..Len(c.a) -> {block_text(TheContent.Blocks[i]) :
                                               i \in 1..Len(c.a)}] :
                    /\ \A i \in 1..Len(c.a) : RawBlockIs(c.a[i], parts[i])
                    /\ SpaceJoined(parts, s)

\* C11 witness: as_text of a tool_use block followed by a tool_result block
\* with two items.
C11_Witness ==
    /\ lib = TH /\ DecodedContent
    /\ RawContent(TheDoc) = JArr(<<ToolUseBlock, ToolResultTwoItemsBlock>>)
    /\ answers.as_text = Some("Bash done again")

\* The decoded line is a user entry of the tenx-hooks model whose
\* description was asked for.
UserDescribed ==
    /\ lib = TH /\ Decoded
    /\ result.val.tag = "User"
    /\ answers.description # None

\* C12: the description of a user entry is "User: " and then the flattened
\* content unchanged when it has at most 50 characters, its first 50
\* characters and "..." when it has more, and a placeholder when there is
\* no content; lengths are counted in characters.
C12_UserDescription ==
    UserDescribed =>
        LET d == answers.description.val
            c == result.val.User.message.content
        IN /\ SubSeq(d, 1, 6) = "User: "
           /\ c = None => Len(d) > 6
           /\ c # None =>
                 LET text == as_text(c.val) IN
                 /\ Len(text) <= 50 => d = "User: " \o text
                 /\ Len(text) > 50 => d = "User: " \o SubSeq(text, 1, 50) \o "..."
           /\ TheDoc = UserDoc => d = "User: hello"

\* The decimal numeral of a small number.
Decimal(n) == <<"0", "1", "2", "3", "4", "5", "6", "7", "8", "9">>[n + 1]

\* Length of the array under key in the raw object, 0 when the key is absent.
RawCount(j, key) == IF key \in Keys(j) /\ j.o[key].k = "arr" THEN Len(j.o[key].a) ELSE 0
RawToolUseBlocks(j) ==
    IF "content" \in Keys(j) /\ j.o.content.k = "arr"
    THEN Cardinality({i \in 1..Len(j.o.content.a) :
                         RawBlockKind(j.o.content.a[i]) = "tool_use"})
    ELSE 0

\* C13: the description of an assistant entry is "Assistant", then
\* ": with thinking" when the message has thinking text, then ": N tool uses"
\* when N > 0, N being the length of tool_uses plus the number of tool_use
\* blocks of the content, then ": N code outputs" when code_outputs is not
\* empty; with none of them it is "Assistant".
C13_AssistantDescription ==
    (lib = TH /\ Decoded /\ result.val.tag = "Assistant" /\ answers.description # None) =>
        LET m == TheDoc.o.message
            n == RawCount(m, "tool_uses") + RawToolUseBlocks(m)
            k == RawCount(m, "code_outputs")
        IN answers.description.val =
              "Assistant"
                \o (IF "thinking" \in Keys(m) /\ m.o.thinking.k = "str"
                    THEN ": with thinking" ELSE "")
                \o (IF n > 0 THEN ": " \o Decimal(n) \o " tool uses" ELSE "")
                \o (IF k > 0 THEN ": " \o Decimal(k) \o " code outputs" ELSE "")

\* C13 witness: an assistant entry with thinking, three tool uses (two in
\* tool_uses, one in the content) and two code outputs was described.
C13_Witness ==
    /\ lib = TH /\ Decoded
    /\ result.val.tag = "Assistant"
    /\ RawCount(TheDoc.o.message, "tool_uses") = 2
    /\ RawToolUseBlocks(TheDoc.o.message) = 1
    /\ answers.description = Some("Assistant: with thinking: 3 tool uses: 2 code outputs")

\* C14: description is total over the decodable entries: every system or
\* summary line the typed model accepts (level being optional) is decoded
\* and described, a system entry as "System[L]" with L its level, or a
\* placeholder when it has none, and a summary entry as "Summary: " and its
\* summary text.
C14_DescribeTotal ==
    (/\ lib = TH /\ pc = "line" /\ result # Pending
     /\ HasEntryType(TheDoc) /\ TheDoc.o.type \in {JStr("system"), JStr("summary")}
     /\ LineDecodes(CT, TheDoc)) =>
        /\ result.ok
        /\ answers.description # None =>
              LET d == answers.description.val IN
              /\ TheDoc.o.type = JStr("system") =>
                    /\ SubSeq(d, 1, 7) = "System["
                    /\ SubSeq(d, Len(d), Len(d)) = "]"
                    /\ "level" \in Keys(TheDoc) => d = "System[" \o TheDoc.o.level.s \o "]"
              /\ TheDoc.o.type = JStr("summary") => d = "Summary: " \o TheDoc.o.summary.s

\* The type discriminant of a line: the type key of an object, the first
\* element of an array.
LineType(j) == IF IsObject(j) THEN j.o.type ELSE j.a[1]

\* C15: for every line that decodes, the serialized entry decodes again,
\* to an entry equal to the first, and the serialized object has the type
\* discriminant of the source line.
C15_RoundTrip ==
    (Decoded /\ answers.to_string # None) =>
        /\ IsObject(answers.to_string.val[1].j)
        /\ answers.to_string.val[1].j.o.type = LineType(TheDoc)
        /\ LineDecodes(lib, answers.to_string.val[1].j)
        /\ answers.reparsed # None =>
              /\ answers.reparsed.val.ok
              /\ answers.reparsed.val.val = result.val

\* C15 witness: an assistant line was decoded, written, and read again
\* to the same entry.
C15_Witness ==
    /\ Decoded /\ lib = CT
    /\ result.val.tag = "Assistant"
    /\ answers.reparsed # None
    /\ answers.reparsed.val = result
    /\ answers.to_string.val # json_line

(***************************************************************************)
(* Properties of the coverage validator                                    *)
(***************************************************************************)
\* The raw value j holds only what type ty of crate l models: objects with
\* declared keys only, named discriminants, values of the declared types.
\* With nulls, an explicit null is allowed for every optional field;
\* without, only for the optional fields that are written even when None.
RECURSIVE Modeled(_, _, _, _)
RECURSIVE ModeledFields(_, _, _, _)

ModeledFields(l, fs, j, nulls) ==
    /\ j.k = "obj"
    /\ Keys(j) \subseteq {fs[i].wire : i \in 1..Len(fs)}
    /\ \A i \in 1..Len(fs) :
          IF fs[i].wire \notin Keys(j) THEN fs[i].ty.t = "Option"
          ELSE IF j.o[fs[i].wire].k = "null" /\ fs[i].ty.t = "Option"
               THEN nulls \/ ~fs[i].skip
               ELSE Modeled(l, fs[i].ty, j.o[fs[i].wire], nulls)

Modeled(l, ty, j, nulls) ==
    CASE ty.t = "String" -> j.k = "str"
      [] ty.t = "bool" -> j.k = "bool"
      [] ty.t = "u64" -> j.k = "num" /\ j.n >= 0
      [] ty.t = "Value" -> TRUE
      [] ty.t = "Option" -> Modeled(l, ty.of, j, nulls)
      [] ty.t = "Vec" -> j.k = "arr" /\ \A i \in 1..Len(j.a) : Modeled(l, ty.of, j.a[i], nulls)
      [] ty.t = "named" ->
            LET d == TypeDef(l, ty.name) IN
            CASE d.kind = "struct" -> ModeledFields(l, d.fields, j, nulls)
              [] d.kind = "untagged" ->
                    \E i \in 1..Len(d.variants) : Modeled(l, d.variants[i].ty, j, nulls)
              [] d.kind = "tagged" ->
                    /\ j.k = "obj"
                    /\ d.tag \in Keys(j)
                    /\ \E i \in 1..Len(d.variants) :
                          /\ j.o[d.tag] = JStr(d.variants[i].wire)
                          /\ ModeledFields(l, TypeDef(l, d.variants[i].fields).fields,
                                           Without(j, d.tag), nulls)

Validated == Decoded /\ answers.missing # None

RECURSIVE Nodes(_, _)
Nodes(j, prefix) ==
    {[p |-> prefix, v |-> j]}
        \cup (IF j.k = "obj"
              THEN UNION {Nodes(j.o[key], prefix \o key \o ".") : key \in Keys(j)}
              ELSE IF j.k = "arr"
              THEN UNION {Nodes(j.a[i], IndexPath(prefix, i) \o ".") : i \in 1..Len(j.a)}
              ELSE {})

\* The positions that are objects in both trees.
SharedObjects(raw, rt) ==
    {pos \in Nodes(raw, "") \X Nodes(rt, "") :
        pos[1].p = pos[2].p /\ pos[1].v.k = "obj" /\ pos[2].v.k = "obj"}

\* The keys the raw tree has and the round-tripped tree lacks, by path.
KeyGaps(raw, rt) ==
    UNION {{pos[1].p \o key : key \in Keys(pos[1].v) \ Keys(pos[2].v)} :
              pos \in SharedObjects(raw, rt)}

RoundTripped == Serialize(lib, TNamed("TranscriptEntry"), result.val)
WithoutDot(prefix) == SubSeq(prefix, 1, Len(prefix) - 1)

MaxItems == 2

ItemOne == JObj([id |-> JNum(1)])
ItemOneExtra == JObj([id |-> JNum(1), extra |-> JStr("f")])
ItemTwo == JObj([id |-> JNum(2)])
ItemDocs == {ItemOne, ItemOneExtra, ItemTwo, JNum(1)}
ItemLists == {JArr(a) : a \in SeqsUpTo(ItemDocs, MaxItems)}

TreeDocs ==
    ItemDocs \cup ItemLists \cup {JObj([items |-> a]) : a \in ItemLists}
        \cup {JStr("hi"), JObj([items |-> ItemOne]), JObj([items |-> JNum(1)]),
              JObj([message |-> JObj([content |-> JStr("hi"), unknownNested |-> JStr("v")])]),
              JObj([message |-> JObj([content |-> JStr("hi")])]),
              JObj([message |-> JObj([content |-> JStr("ho")])]),
              JObj([message |-> JStr("hi")])}

WalkInit ==
    /\ content = <<>>
    /\ line_idx = 0
    /\ entries = <<>>
    /\ errors = <<>>
    /\ pc = "walk"
    /\ lib = CT
    /\ json_line \in {<<Doc(raw), Doc(rt)>> : raw \in TreeDocs, rt \in TreeDocs}
    /\ result = Pending
    /\ answers = [missing |-> None]
    /\ HookIdle

WalkTrees ==
    /\ pc = "walk"
    /\ answers.missing = None
    /\ answers' = [missing |-> Some(Walk(json_line[1].j, json_line[2].j, ""))]
    /\ UNCHANGED <<content, line_idx, entries, errors, pc, lib, json_line, result, hookVars>>

WalkNext == WalkTrees

WalkSpec == WalkInit /\ [][WalkNext]_vars

Walked == pc = "walk" /\ answers.missing # None
RawTree == json_line[1].j
TypedTree == json_line[2].j

\* The positions that are arrays in both trees.
SharedArrays(raw, rt) ==
    {pos \in Nodes(raw, "") \X Nodes(rt, "") :
        pos[1].p = pos[2].p /\ pos[1].v.k = "arr" /\ pos[2].v.k = "arr"}

\* Some finding lies at or below the path.
FindingUnder(path) ==
    \E f \in answers.missing.val : Len(f) >= Len(path) /\ SubSeq(f, 1, Len(path)) = path

\* C18: two arrays are compared by index: a key missing inside element i is
\* reported under the prefix ending in [i]., an element without a gap has
\* no finding, and every raw element beyond the length of the round-tripped
\* array is reported.
C18_ArraysByIndex ==
    Walked =>
        /\ \A pos \in SharedArrays(RawTree, TypedTree) :
              LET raw == pos[1].v.a
                  rt == pos[2].v.a
              IN \A i \in 1..Len(raw) :
                    /\ i > Len(rt) => IndexPath(pos[1].p, i) \in answers.missing.val
                    /\ (i <= Len(rt) /\ raw[i].k = "obj" /\ rt[i].k = "obj") =>
                          \A key \in Keys(raw[i]) \ Keys(rt[i]) :
                              (IndexPath(pos[1].p, i) \o "." \o key) \in answers.missing.val
                    /\ (i <= Len(rt) /\ KeyGaps(raw[i], rt[i]) = {}) =>
                          ~FindingUnder(IndexPath(pos[1].p, i))
        /\ (/\ RawTree = JObj([items |-> JArr(<<ItemOneExtra, ItemTwo>>)])
            /\ TypedTree = JObj([items |-> JArr(<<ItemOne, ItemTwo>>)])) =>
              answers.missing.val = {"items.[0].extra"}

\* C18 witness: the walk of items [{id, extra}, {id}] against items [{id}]
\* reports the extra key of element 0 and the whole of element 1.
C18_Witness ==
    /\ Walked
    /\ RawTree = JObj([items |-> JArr(<<ItemOneExtra, ItemTwo>>)])
    /\ TypedTree = JObj([items |-> JArr(<<ItemOne>>)])
    /\ answers.missing = Some({"items.[0].extra", "items.[1]"})

\* C19: the validator checks coverage, not equality: a key that both sides
\* have is never reported, whatever the two values are, nothing is reported
\* below a key whose two values differ in kind, and a key that only the
\* round-tripped tree has is never reported.
C19_CoverageOnly ==
    Walked =>
        \A pos \in SharedObjects(RawTree, TypedTree) :
            /\ \A key \in Keys(pos[2].v) : (pos[1].p \o key) \notin answers.missing.val
            /\ \A key \in Keys(pos[1].v) \cap Keys(pos[2].v) :
                  pos[1].v.o[key].k # pos[2].v.o[key].k => ~FindingUnder(pos[1].p \o key)

\* C19 witness: the walk of {message: {content, unknownNested}} against
\* {message: "hi"}, an object against a scalar, reports nothing.
C19_Witness ==
    /\ Walked
    /\ RawTree = JObj([message |-> JObj([content |-> JStr("hi"),
                                         unknownNested |-> JStr("v")])])
    /\ TypedTree = JObj([message |-> JStr("hi")])
    /\ answers.missing = Some({})

\* The entry as it was written by to_string.
Written == answers.to_string.val[1].j

\* C20: the typed model never adds a field: at every object position the
\* keys of the re-serialized entry are keys of the raw line, also when the
\* raw line leaves out an optional field such as parentUuid, stop_reason or
\* stop_sequence.
C20_NoAddedKeys ==
    (Decoded /\ answers.to_string # None) =>
        \A pos \in SharedObjects(TheDoc, Written) : Keys(pos[2].v) \subseteq Keys(pos[1].v)

(***************************************************************************)
(* Hook outputs (tenx-hooks/src/output.rs; pretool.rs, posttool.rs and     *)
(* stop.rs carry the same structs, with stop and suppress_output named     *)
(* and_stop and and_suppress_output).  Every output struct derives Default *)
(* and has the attribute rename_all = "camelCase"; every field is an       *)
(* Option with skip_serializing_if = "is_none".                            *)
(***************************************************************************)
\* #[serde(rename_all = "lowercase")] enum Decision { Approve, Block }
Decision == TUnitEnum(<< [rust |-> "Approve", wire |-> "approve"],
                         [rust |-> "Block", wire |-> "block"] >>)

ControlFields == <<
    Field("continue_", "continue", TOption(TBool), TRUE),
    Field("stop_reason", "stopReason", TOption(TString), TRUE),
    Field("suppress_output", "suppressOutput", TOption(TBool), TRUE) >>

DecisionFields == <<
    Field("decision", "decision", TOption(Decision), TRUE),
    Field("reason", "reason", TOption(TString), TRUE) >>

PreToolUseOutput == DecisionFields \o ControlFields
PostToolUseOutput == DecisionFields \o ControlFields
NotificationOutput == ControlFields
StopOutput == DecisionFields \o ControlFields

OutputTypes == {"PreToolUseOutput", "PostToolUseOutput", "NotificationOutput", "StopOutput"}

OutputFields(ty) ==
    CASE ty = "PreToolUseOutput" -> PreToolUseOutput
      [] ty = "PostToolUseOutput" -> PostToolUseOutput
      [] ty = "NotificationOutput" -> NotificationOutput
      [] ty = "StopOutput" -> StopOutput

\* The constructors and builders each impl block offers
Methods(ty) ==
    CASE ty = "PreToolUseOutput" ->
            {"default", "passthrough", "approve", "block", "stop", "suppress_output",
             "with_reason", "without_reason"}
      [] ty = "PostToolUseOutput" ->
            {"default", "passthrough", "block", "stop", "suppress_output",
             "with_reason", "without_reason"}
      [] ty = "NotificationOutput" -> {"default", "stop", "suppress_output"}
      [] ty = "StopOutput" -> {"default", "block", "stop", "suppress_output"}

\* #[derive(Default)]: every Option field is None
Default(ty) == LET fs == OutputFields(ty) IN [name \in {fs[i].rust : i \in 1..Len(fs)} |-> None]

passthrough(ty) == Default(ty)

approve(ty, reason) ==
    [Default(ty) EXCEPT !.decision = Some("Approve"), !.reason = Some(reason)]

block(ty, reason) ==
    [Default(ty) EXCEPT !.decision = Some("Block"), !.reason = Some(reason)]

stop_and_clear_reason(self, reason) ==
    [name \in DOMAIN self |->
        CASE name = "continue_" -> Some(FALSE)
          [] name = "stop_reason" -> Some(reason)
          [] name = "reason" -> None
          [] OTHER -> self[name]]

stop(self, reason) ==
    [self EXCEPT !.continue_ = Some(FALSE), !.stop_reason = Some(reason)]

suppress_output(self, suppress) == [self EXCEPT !.suppress_output = Some(suppress)]

with_reason(self, reason) == [self EXCEPT !.reason = Some(reason)]

without_reason(self) == [self EXCEPT !.reason = None]

\* serde_json::to_string(&output): the compact text of the output's JSON
to_string_output(ty, o) == <<Doc(JObj(SerializeStruct(CT, OutputFields(ty), o)))>>

(***************************************************************************)
(* A chain of builder calls on one output, as the tests of output.rs write *)
(* them, closed by serde_json::to_string.                                  *)
(***************************************************************************)
MaxCalls == 3

Reasons == {"error", "fatal error"}

Building == step = "build" /\ program \in OutputTypes

Calls == IF call = None THEN 0 ELSE call.n

Called(fn, arg) == [fn |-> fn, arg |-> arg, n |-> Calls + 1]

Construct(fn, arg, o) ==
    /\ Building
    /\ output = None
    /\ fn \in Methods(program)
    /\ output' = o
    /\ call' = Called(fn, arg)
    /\ UNCHANGED <<content, line_idx, entries, errors, pc, lib, json_line, result, answers,
                   program, args, step, input, feedback_messages, commands, stdout,
                   exit_status, returned>>

Chain(fn, arg, o) ==
    /\ Building
    /\ output # None
    /\ Calls < MaxCalls
    /\ fn \in Methods(program)
    /\ output' = o
    /\ call' = Called(fn, arg)
    /\ UNCHANGED <<content, line_idx, entries, errors, pc, lib, json_line, result, answers,
                   program, args, step, input, feedback_messages, commands, stdout,
                   exit_status, returned>>

NewDefault == Construct("default", None, Default(program))
NewPassthrough == Construct("passthrough", None, passthrough(program))
NewApprove == \E reason \in Reasons : Construct("approve", Some(reason), approve(program, reason))
NewBlock == \E reason \in Reasons : Construct("block", Some(reason), block(program, reason))
CallStop == \E reason \in Reasons : Chain("stop", Some(reason), stop(output, reason))
CallSuppressOutput ==
    \E suppress \in BOOLEAN :
        Chain("suppress_output", Some(suppress), suppress_output(output, suppress))
CallWithReason ==
    \E reason \in Reasons : Chain("with_reason", Some(reason), with_reason(output, reason))
CallWithoutReason == Chain("without_reason", None, without_reason(output))

SerializeOutput ==
    /\ Building
    /\ output # None
    /\ step' = "serialized"
    /\ returned' = Some(Ok(to_string_output(program, output)))
    /\ UNCHANGED <<content, line_idx, entries, errors, pc, lib, json_line, result, answers,
                   program, args, input, feedback_messages, commands, output, call, stdout,
                   exit_status>>

BuildInit ==
    /\ content = <<>>
    /\ line_idx = 0
    /\ entries = <<>>
    /\ errors = <<>>
    /\ pc = "hook"
    /\ lib = CT
    /\ json_line = <<>>
    /\ result = Pending
    /\ answers = NoAnswers
    /\ program \in OutputTypes
    /\ args = None
    /\ step = "build"
    /\ input = None
    /\ feedback_messages = <<>>
    /\ commands = <<>>
    /\ output = None
    /\ call = None
    /\ stdout = <<>>
    /\ exit_status = None
    /\ returned = None

BuildNext ==
    \/ NewDefault \/ NewPassthrough \/ NewApprove \/ NewBlock
    \/ CallStop \/ CallSuppressOutput \/ CallWithReason \/ CallWithoutReason
    \/ SerializeOutput

BuildSpec == BuildInit /\ [][BuildNext]_vars

(***************************************************************************)
(* Properties of the output builders                                       *)
(***************************************************************************)
\* What one call may touch; every other field of the output stays
Touches(fn) ==
    CASE fn = "stop" -> {"continue_", "stop_reason"}
      [] fn = "suppress_output" -> {"suppress_output"}
      [] fn \in {"with_reason", "without_reason"} -> {"reason"}
      [] OTHER -> {}

Unset(o, names) == \A name \in names : o[name] = None

ConstructedAs(decision) ==
    /\ output = None
    /\ output'.decision = Some(decision)
    /\ output'.reason = call'.arg
    /\ Unset(output', {"continue_", "stop_reason", "suppress_output"})

BuiltOn(fn) ==
    /\ output # None
    /\ DOMAIN output' = DOMAIN output
    /\ \A name \in DOMAIN output \ Touches(fn) : output'[name] = output[name]
    /\ fn = "stop" => output'.continue_ = Some(FALSE) /\ output'.stop_reason = call'.arg
    /\ fn = "suppress_output" => output'.suppress_output = call'.arg
    /\ fn = "with_reason" => output'.reason = call'.arg
    /\ fn = "without_reason" => output'.reason = None

BuilderStep ==
    call' # call =>
        /\ call'.fn = "approve" => ConstructedAs("Approve")
        /\ call'.fn = "block" => ConstructedAs("Block")
        /\ call'.fn \in {"stop", "suppress_output", "with_reason", "without_reason"} =>
                BuiltOn(call'.fn)

\* C21: approve(reason) and block(reason) build an output with the decision
\* Approve or Block and the given reason, and continue, stopReason and
\* suppressOutput unset; in a chain of builder calls stop sets continue to
\* false and the stop reason, suppress_output sets only suppress_output,
\* with_reason and without_reason change only reason, and every call leaves
\* all other fields as they were.
C21_Builders == [][BuilderStep]_vars

\* the chain of test_builder_chaining: block("error").stop("fatal error").suppress_output(true)
C21_Witness ==
    /\ program = "PreToolUseOutput"
    /\ call # None
    /\ call.fn = "suppress_output"
    /\ call.n = 3
    /\ output.decision = Some("Block")
    /\ output.reason = Some("error")
    /\ output.continue_ = Some(FALSE)
    /\ output.stop_reason = Some("fatal error")
    /\ output.suppress_output = Some(TRUE)

\* The key each field is to be written under
CamelCase(name) ==
    CASE name = "decision" -> "decision"
      [] name = "reason" -> "reason"
      [] name = "continue_" -> "continue"
      [] name = "stop_reason" -> "stopReason"
      [] name = "suppress_output" -> "suppressOutput"

Serialized == step = "serialized"
OutputJson == returned.val.val[1].j
SetFields == {name \in DOMAIN output : output[name] # None}

\* C22: the JSON of a hook output is an object with a key exactly for each
\* field that is set (so an output with no field set is written as {}), the
\* keys are decision, reason, continue, stopReason and suppressOutput, and
\* a decision is written as the lowercase string approve or block.
C22_OutputJson ==
    Serialized =>
        /\ returned.val.ok
        /\ OutputJson.k = "obj"
        /\ Keys(OutputJson) = {CamelCase(name) : name \in SetFields}
        /\ SetFields = {} => OutputJson = JObj(<<>>)
        /\ "decision" \in SetFields =>
                OutputJson.o["decision"] =
                    JStr(IF output.decision.val = "Approve" THEN "approve" ELSE "block")

C22_Witness ==
    /\ Serialized
    /\ program = "PreToolUseOutput"
    /\ output.decision = Some("Approve")
    /\ Keys(OutputJson) = {"decision", "reason", "continue", "stopReason", "suppressOutput"}

(***************************************************************************)
(* Hook processes.  A hook is a process that Claude Code starts with a     *)
(* JSON document on stdin; it answers with a JSON line on stdout and with  *)
(* its exit status.                                                        *)
(***************************************************************************)
\* str::ends_with and str::contains
ends_with(s, suffix) ==
    Len(s) >= Len(suffix) /\ SubSeq(s, Len(s) - Len(suffix) + 1, Len(s)) = suffix

contains(s, pat) ==
    \E i \in 1..(Len(s) - Len(pat) + 1) : SubSeq(s, i, i + Len(pat) - 1) = pat

\* std::process::exit(code): the status the parent sees.  Unix keeps the
\* low eight bits of the i32, Windows the whole of it.
StatusBits == 8

process_exit(platform, code) ==
    IF platform = "unix" THEN code % (2 ^ StatusBits) ELSE code

\* fn main() -> Result<()>: returning Err ends the process with failure
ExitFailure == 1

\* Input structs: #[serde(rename_all = "snake_case")], every field required
PostToolUse == <<
    Field("session_id", "session_id", TString, FALSE),
    Field("transcript_path", "transcript_path", TString, FALSE),
    Field("tool_name", "tool_name", TString, FALSE),
    Field("tool_input", "tool_input", THashMap, FALSE),
    Field("tool_response", "tool_response", THashMap, FALSE) >>

Stop == <<
    Field("session_id", "session_id", TString, FALSE),
    Field("transcript_path", "transcript_path", TString, FALSE),
    Field("stop_hook_active", "stop_hook_active", TBool, FALSE) >>

SubagentStop == Stop

\* Deserializer::end: only whitespace may follow the value
end(r, rest) ==
    IF ~r.ok THEN r
    ELSE IF TrimStart(rest) # <<>> THEN Err("trailing characters")
    ELSE r

\* Input::read: the whole of stdin through serde_json::from_str
read(fs, buffer) ==
    LET t == TrimStart(buffer) IN
    IF t = <<>> THEN Err("EOF while parsing a value")
    ELSE IF Head(t).c # "doc" THEN Err("expected value")
    ELSE end(DeserializeStruct(CT, fs, Head(t).j), Tail(t))

\* The programs, the input struct each reads and the output struct it answers with
PostToolPrograms == {"rust-hook posttool"}
StopExamples == {"stop_handler", "subagent_stop_handler"}
StopPrograms == {"rust-hook stop"} \cup StopExamples
ExitFunctions == {"exit::success", "exit::block", "exit::error"}
Handlers == PostToolPrograms \cup StopPrograms

InputOf(p) ==
    CASE p \in PostToolPrograms -> PostToolUse
      [] p = "subagent_stop_handler" -> SubagentStop
      [] p \in StopPrograms -> Stop

OutputOf(p) == IF p \in PostToolPrograms THEN "PostToolUseOutput" ELSE "StopOutput"

\* Stop::allow
allow(ty) == Default(ty)

\* HookResponse::respond(self) -> !: print the JSON, exit(0).  next is the
\* statement that follows the call in the source.
respond_and_return(platform, ty, o, out, next) ==
    [stdout |-> Append(out, to_string_output(ty, o)), exit_status |-> None, step |-> next]

respond(platform, ty, o, out, next) ==
    [stdout |-> Append(out, to_string_output(ty, o)),
     exit_status |-> Some(process_exit(platform, 0)),
     step |-> "exited"]

hookFrame == <<content, line_idx, entries, errors, pc, lib, json_line, result, answers,
               program, args, output, call>>

Respond(o, next) ==
    LET r == respond(args.platform, OutputOf(program), o, stdout, next) IN
    /\ stdout' = r.stdout
    /\ exit_status' = r.exit_status
    /\ step' = r.step

\* `?` on an Err in a handler: main returns the error
Fail(e) ==
    /\ returned' = Some(Err(e))
    /\ exit_status' = Some(process_exit(args.platform, ExitFailure))
    /\ step' = "exited"

(***************************************************************************)
(* exit.rs                                                                 *)
(***************************************************************************)
\* exit::success
Success ==
    /\ program = "exit::success" /\ step = "call"
    /\ exit_status' = Some(process_exit(args.platform, 0))
    /\ step' = "exited"
    /\ UNCHANGED <<hookFrame, input, feedback_messages, commands, stdout, returned>>

\* exit::block
ExitBlock ==
    /\ program = "exit::block" /\ step = "call"
    /\ exit_status' = Some(process_exit(args.platform, 2))
    /\ step' = "exited"
    /\ UNCHANGED <<hookFrame, input, feedback_messages, commands, stdout, returned>>

InvalidExitCode(code) == [InvalidExitCode |-> code]

ReservedAny(code) == FALSE

Reserved(code) == code = 0 \/ code = 2

\* exit::error(code)
Error ==
    /\ program = "exit::error" /\ step = "call"
    /\ IF Reserved(args.code)
       THEN /\ returned' = Some(Err(InvalidExitCode(args.code)))
            /\ step' = "returned"
            /\ UNCHANGED exit_status
       ELSE /\ exit_status' = Some(process_exit(args.platform, args.code))
            /\ step' = "exited"
            /\ UNCHANGED returned
    /\ UNCHANGED <<hookFrame, input, feedback_messages, commands, stdout>>

(***************************************************************************)
(* The handlers: rust-hook's posttool and stop, and the stop examples      *)
(***************************************************************************)
\* let input = PostToolUse::read()?  /  Stop::read()?
Read ==
    /\ program \in Handlers /\ step = "read"
    /\ \E r \in {read(InputOf(program), args.stdin)} :
       /\ input' = r
       /\ IF r.ok
          THEN /\ step' = CASE program \in PostToolPrograms -> "tool_name"
                            [] program = "rust-hook stop" -> "has_edited"
                            [] program \in StopExamples -> "active"
               /\ UNCHANGED <<exit_status, returned>>
          ELSE Fail(r.err)
    /\ UNCHANGED <<hookFrame, feedback_messages, commands, stdout>>

\* handle_posttool: only Edit and MultiEdit are processed
CheckToolName ==
    /\ program \in PostToolPrograms /\ step = "tool_name"
    /\ IF input.val.tool_name # "Edit" /\ input.val.tool_name # "MultiEdit"
       THEN Respond(passthrough(OutputOf(program)), "file_path")
       ELSE step' = "file_path" /\ UNCHANGED <<stdout, exit_status>>
    /\ UNCHANGED <<hookFrame, input, feedback_messages, commands, returned>>

\* tool_response.get("filePath").and_then(|v| v.as_str()).unwrap_or("")
file_path(tool_response) ==
    IF "filePath" \in DOMAIN tool_response /\ tool_response["filePath"].k = "str"
    THEN tool_response["filePath"].s ELSE ""

is_rust_path(path) == contains(path, ".rs")

\* utils.rs
is_rust_file(path) == ends_with(path, ".rs")

CheckFilePath ==
    /\ program \in PostToolPrograms /\ step = "file_path"
    /\ IF ~is_rust_file(file_path(input.val.tool_response))
       THEN Respond(passthrough(OutputOf(program)), "fmt")
       ELSE step' = "fmt" /\ UNCHANGED <<stdout, exit_status>>
    /\ UNCHANGED <<hookFrame, input, feedback_messages, commands, returned>>

\* has_edited_rust_files: an assistant entry with a tool use of Edit or
\* MultiEdit whose tool_input.file_path is a Rust file
edits_rust_file(tool_use) ==
    /\ tool_use.tool_name \in {"Edit", "MultiEdit"}
    /\ tool_use.tool_input.k = "obj"
    /\ "file_path" \in Keys(tool_use.tool_input)
    /\ tool_use.tool_input.o["file_path"].k = "str"
    /\ is_rust_file(tool_use.tool_input.o["file_path"].s)

has_edited_rust_files(transcript) ==
    \E i \in 1..Len(transcript) :
        /\ transcript[i].tag = "Assistant"
        /\ Payload(transcript[i]).message.tag = "Assistant"
        /\ Payload(Payload(transcript[i]).message).tool_uses # None
        /\ LET tool_uses == Payload(Payload(transcript[i]).message).tool_uses.val IN
           \E u \in 1..Len(tool_uses) : edits_rust_file(tool_uses[u])

\* handle_stop: if !has_edited_rust_files(&input)? { input.allow().respond(); }
HasEditedRustFiles ==
    /\ program = "rust-hook stop" /\ step = "has_edited"
    /\ IF ~args.transcript.ok
       THEN Fail(args.transcript.err) /\ UNCHANGED stdout
       ELSE /\ IF ~has_edited_rust_files(args.transcript.val)
               THEN Respond(allow(OutputOf(program)), "fmt")
               ELSE step' = "fmt" /\ UNCHANGED <<stdout, exit_status>>
            /\ UNCHANGED returned
    /\ UNCHANGED <<hookFrame, input, feedback_messages, commands>>

\* run_rust_tools, first half: cargo fmt --all
fmt_feedback(outcome) ==
    CASE outcome = "success" -> <<>>
      [] outcome = "failure" -> <<"cargo fmt failed:\n" \o "stderr">>
      [] outcome = "not launched" -> <<"Failed to run cargo fmt: " \o "error">>

\* run_rust_tools, second half: cargo clippy
clippy_feedback(outcome) ==
    CASE outcome = "success" -> <<>>
      [] outcome = "failure" -> <<"cargo clippy found warnings:\n" \o "stderr">>
      [] outcome = "not launched" -> <<"Failed to run cargo clippy: " \o "error">>

RunCargoFmt ==
    /\ program \in {"rust-hook posttool", "rust-hook stop"} /\ step = "fmt"
    /\ commands' = Append(commands, "cargo fmt")
    /\ feedback_messages' = feedback_messages \o fmt_feedback(args.cargo_fmt)
    /\ step' = "clippy"
    /\ UNCHANGED <<hookFrame, input, stdout, exit_status, returned>>

RunCargoClippy ==
    /\ program \in {"rust-hook posttool", "rust-hook stop"} /\ step = "clippy"
    /\ commands' = Append(commands, "cargo clippy")
    /\ feedback_messages' = feedback_messages \o clippy_feedback(args.cargo_clippy)
    /\ step' = "decide"
    /\ UNCHANGED <<hookFrame, input, stdout, exit_status, returned>>

stop_message(messages) ==
    "Rust formatting/linting issues found:\n\n" \o join(messages, "\n\n")
        \o "\n\nPlease fix these issues."

\* the if / else on feedback_messages.is_empty() that ends both handlers
Decide ==
    /\ program \in {"rust-hook posttool", "rust-hook stop"} /\ step = "decide"
    /\ LET ty == OutputOf(program) IN
       IF feedback_messages # <<>>
       THEN Respond(block(ty, IF program = "rust-hook stop"
                              THEN stop_message(feedback_messages)
                              ELSE join(feedback_messages, "\n\n")), "end")
       ELSE Respond(passthrough(ty), "end")
    /\ UNCHANGED <<hookFrame, input, feedback_messages, commands, returned>>

\* stop_handler.rs, subagent_stop_handler.rs: if stop.stop_hook_active { stop.allow().respond(); }
CheckStopHookActive ==
    /\ program \in StopExamples /\ step = "active"
    /\ IF input.val.stop_hook_active
       THEN Respond(allow(OutputOf(program)), "session")
       ELSE step' = "session" /\ UNCHANGED <<stdout, exit_status>>
    /\ UNCHANGED <<hookFrame, input, feedback_messages, commands, returned>>

continue_reason(p) ==
    IF p = "stop_handler" THEN "Task not yet complete, continuing..."
    ELSE "Subagent task not yet complete, continuing..."

\* if stop.session_id.contains("continue") { stop.block(..).respond(); }
CheckSession ==
    /\ program \in StopExamples /\ step = "session"
    /\ IF contains(input.val.session_id, "continue")
       THEN Respond(block(OutputOf(program), continue_reason(program)), "allow")
       ELSE step' = "allow" /\ UNCHANGED <<stdout, exit_status>>
    /\ UNCHANGED <<hookFrame, input, feedback_messages, commands, returned>>

\* stop.allow().respond() at the end of main
AllowStop ==
    /\ program \in StopExamples /\ step = "allow"
    /\ Respond(allow(OutputOf(program)), "end")
    /\ UNCHANGED <<hookFrame, input, feedback_messages, commands, returned>>

(***************************************************************************)
(* Claude Code's side: what a hook is started with, and the stop request   *)
(* that follows a blocked stop (stop.rs: stop_hook_active is "true when    *)
(* Claude Code is already continuing as a result of a stop hook").         *)
(***************************************************************************)
MaxRounds == 3

Platforms == {"unix", "windows"}
ExitCodes == {-1, 0, 1, 2, 3, 255, 256, 258}
Outcomes == {"success", "failure", "not launched"}

PostToolUseDoc(tool_name, tool_response) ==
    JObj([session_id |-> JStr("test-session"), transcript_path |-> JStr("/t.jsonl"),
          tool_name |-> JStr(tool_name), tool_input |-> JObj(<<>>),
          tool_response |-> tool_response])

ToolNames == {"Edit", "MultiEdit", "Write"}

ToolResponses ==
    {JObj(<<>>), JObj([filePath |-> JNum(1)])}
        \cup {JObj([filePath |-> JStr(path)]) :
                path \in {"src/lib.rs", ".rs", "notes.txt", "lib.rs.bak", ""}}

StopDoc(session_id, active) ==
    JObj([session_id |-> JStr(session_id), transcript_path |-> JStr("/t.jsonl"),
          stop_hook_active |-> JBool(active)])

SessionIds == {"test-session", "please continue"}

\* stdin that is no input: nothing, no JSON, an object short of a field
NoInput(p) ==
    {<<>>, <<X>>, <<Doc(JStr("Edit"))>>,
     <<Doc(Without(StopDoc("test-session", TRUE), "transcript_path"))>>}
        \cup IF p \in PostToolPrograms
             THEN {<<Doc(Without(PostToolUseDoc("Edit", JObj(<<>>)), "tool_response"))>>,
                   <<Doc(PostToolUseDoc("Edit", JArr(<<>>)))>>}
             ELSE {<<Doc(Without(StopDoc("test-session", TRUE), "stop_hook_active"))>>}

Stdin(p) ==
    NoInput(p) \cup
        IF p \in PostToolPrograms
        THEN {<<Doc(PostToolUseDoc(n, r))>> : n \in ToolNames, r \in ToolResponses}
        ELSE {<<Doc(StopDoc(s, a)), LF>> : s \in SessionIds, a \in BOOLEAN}

EditDoc(tool, path) ==
    With(AssistantDoc, "message",
         With(AssistantMessageDoc, "tool_uses",
              JArr(<<JObj([toolName |-> JStr(tool),
                           toolInput |-> JObj([file_path |-> JStr(path)])])>>)))

Entry(j) == parse_transcript_line(CT, <<Doc(j)>>).val

\* TranscriptReader::read_transcript: the entries of the transcript file, or an error
Transcripts ==
    {Err("No such file or directory"), Ok(<<>>), Ok(<<Entry(UserDoc), Entry(AssistantDoc)>>),
     Ok(<<Entry(EditDoc("Edit", "README.md"))>>),
     Ok(<<Entry(UserDoc), Entry(EditDoc("MultiEdit", "src/main.rs"))>>)}

Started(p, platform, code, in, fmt, clippy, transcript) ==
    /\ program = p
    /\ args = [stdin |-> in, code |-> code, cargo_fmt |-> fmt, cargo_clippy |-> clippy,
               transcript |-> transcript, platform |-> platform, round |-> 1]
    /\ step = IF p \in ExitFunctions THEN "call" ELSE "read"
    /\ input = None
    /\ feedback_messages = <<>>
    /\ commands = <<>>
    /\ output = None
    /\ call = None
    /\ stdout = <<>>
    /\ exit_status = None
    /\ returned = None

HookInit ==
    /\ content = <<>>
    /\ line_idx = 0
    /\ entries = <<>>
    /\ errors = <<>>
    /\ pc = "hook"
    /\ lib = CT
    /\ json_line = <<>>
    /\ result = Pending
    /\ answers = NoAnswers
    /\ \E platform \in Platforms :
        \/ \E p \in {"exit::success", "exit::block"} :
                Started(p, platform, 0, <<>>, "success", "success", Ok(<<>>))
        \/ \E code \in ExitCodes :
                Started("exit::error", platform, code, <<>>, "success", "success", Ok(<<>>))
        \/ \E in \in Stdin("rust-hook posttool"), fmt \in Outcomes, clippy \in Outcomes :
                Started("rust-hook posttool", platform, 0, in, fmt, clippy, Ok(<<>>))
        \/ \E in \in Stdin("rust-hook stop"), fmt \in Outcomes, clippy \in Outcomes,
              transcript \in Transcripts :
                Started("rust-hook stop", platform, 0, in, fmt, clippy, transcript)
        \/ \E p \in StopExamples : \E in \in Stdin(p) :
                Started(p, platform, 0, in, "success", "success", Ok(<<>>))

\* The response a finished hook gave, as Claude Code reads it
Exited == step = "exited"
Response == stdout[Len(stdout)][1].j
Blocked ==
    /\ Exited /\ exit_status = Some(0) /\ stdout # <<>>
    /\ "decision" \in Keys(Response)
    /\ Response.o["decision"] = JStr("block")

\* A blocked stop: Claude Code continues, and its next stop request starts
\* the hook again, now with stop_hook_active = true.
ClaudeContinues ==
    /\ program \in StopPrograms
    /\ Blocked
    /\ args.round < MaxRounds
    /\ \E fmt \in Outcomes, clippy \in Outcomes :
        args' = [args EXCEPT
                    !.round = @ + 1,
                    !.stdin = <<Doc(With(Head(@).j, "stop_hook_active", JBool(TRUE))), LF>>,
                    !.cargo_fmt = fmt,
                    !.cargo_clippy = clippy]
    /\ step' = "read"
    /\ input' = None
    /\ feedback_messages' = <<>>
    /\ commands' = <<>>
    /\ stdout' = <<>>
    /\ exit_status' = None
    /\ returned' = None
    /\ UNCHANGED <<content, line_idx, entries, errors, pc, lib, json_line, result, answers,
                   program, output, call>>

HookNext ==
    \/ Success \/ ExitBlock \/ Error
    \/ Read \/ CheckToolName \/ CheckFilePath \/ HasEditedRustFiles
    \/ RunCargoFmt \/ RunCargoClippy \/ Decide
    \/ CheckStopHookActive \/ CheckSession \/ AllowStop
    \/ ClaudeContinues

HookSpec == HookInit /\ [][HookNext]_vars

(***************************************************************************)
(* Properties of the hook processes                                        *)
(***************************************************************************)
\* C23: exit::error(code) returns Err(InvalidExitCode(code)) without ending
\* the process when code is 0 or 2, and for every other code ends the
\* process with exactly that exit code; success() ends it with code 0 and
\* block() with code 2.
C23_ExitCodes ==
    /\ program = "exit::success" /\ step # "call" => exit_status = Some(0) /\ returned = None
    /\ program = "exit::block" /\ step # "call" => exit_status = Some(2) /\ returned = None
    /\ program = "exit::error" /\ step # "call" =>
            IF args.code \in {0, 2}
            THEN returned = Some(Err(InvalidExitCode(args.code))) /\ exit_status = None
            ELSE exit_status = Some(args.code) /\ returned = None

WellFormed(line) == Len(line) = 1 /\ line[1].c = "doc" /\ line[1].j.k = "obj"

\* C24: a tool built on the hook library always exits with status 0 and
\* returns a well-formed JSON response: every run of a handler that reads
\* its input with Input::read and answers with HookResponse::respond ends
\* with exit status 0 after one JSON response was written to stdout.
C24_AlwaysExitZero ==
    program \in Handlers /\ Exited =>
        /\ exit_status = Some(0)
        /\ Len(stdout) = 1
        /\ WellFormed(stdout[1])

InputRead == input # None /\ input.ok

\* C27: a stop hook invoked with stop_hook_active = true allows the stop
\* instead of blocking again, so that stop, block, continue, stop cannot
\* repeat forever: the stop request that follows a block, which arrives
\* with stop_hook_active = true, is not blocked again.
C27_ActiveStopAllowed ==
    program \in StopPrograms /\ InputRead /\ input.val.stop_hook_active => ~Blocked

\* The input of the posttool handler as it stands on stdin
RawInput == Head(args.stdin).j
RawEdit == RawInput.o["tool_name"] \in {JStr("Edit"), JStr("MultiEdit")}
RawRustFile ==
    LET r == RawInput.o["tool_response"] IN
    /\ "filePath" \in Keys(r)
    /\ r.o["filePath"].k = "str"
    /\ LET path == r.o["filePath"].s IN
       Len(path) >= 3 /\ SubSeq(path, Len(path) - 2, Len(path)) = ".rs"
ToolsComplain == args.cargo_fmt # "success" \/ args.cargo_clippy # "success"

\* C28: rust-hook's posttool handler answers with a block decision if and
\* only if the tool name is Edit or MultiEdit, the tool response's filePath
\* ends in .rs, and cargo fmt and cargo clippy produced at least one
\* feedback message (a failure of the tool or a failure to launch it); in
\* every other case it answers with passthrough (no decision); and the
\* cargo tools are run only when the first two conditions hold.
C28_PostTool ==
    program = "rust-hook posttool" /\ InputRead =>
        /\ commands # <<>> => RawEdit /\ RawRustFile
        /\ Exited =>
            /\ Len(stdout) = 1
            /\ Blocked <=> (RawEdit /\ RawRustFile /\ ToolsComplain)
            /\ Blocked => Keys(Response) = {"decision", "reason"}
            /\ ~Blocked => Response = JObj(<<>>)
            /\ RawEdit /\ RawRustFile => commands = <<"cargo fmt", "cargo clippy">>

C28_Witness ==
    /\ program = "rust-hook posttool"
    /\ Blocked
    /\ input.val.tool_name = "MultiEdit"
    /\ commands = <<"cargo fmt", "cargo clippy">>
    /\ args.cargo_fmt = "success"
    /\ args.cargo_clippy = "not launched"

RespondStep ==
    /\ Len(stdout') > Len(stdout) =>
            /\ Len(stdout') = 1
            /\ WellFormed(stdout'[1])
            /\ step' = "exited"
            /\ exit_status' = Some(0)
    /\ Exited /\ program \in Handlers =>
            \/ UNCHANGED <<step, stdout, exit_status, commands, feedback_messages>>
            \/ /\ args'.round = args.round + 1
               /\ step' = "read"
               /\ stdout' = <<>>

\* C29: HookResponse::respond never returns: it ends the process right
\* after printing, so nothing written after a respond() call executes, and
\* every run of a handler that answers early with respond() (rust-hook
\* posttool for a tool other than Edit, the stop_handler example with
\* stop_hook_active set) writes exactly one JSON response to stdout, never
\* two.
C29_RespondExits == [][RespondStep]_vars

C29_Witness ==
    /\ Exited
    /\ InputRead
    /\ Len(stdout) = 1
    /\ exit_status = Some(0)
    /\ \/ program = "rust-hook posttool" /\ input.val.tool_name = "Write"
       \/ program = "stop_handler" /\ input.val.stop_hook_active
                                   /\ contains(input.val.session_id, "continue")

(***************************************************************************)
(* hooktest/src/input.rs: the key=value and key=json inputs of the command *)
(* line.  Inputs are strings; a map is a function from its keys.           *)
(***************************************************************************)
\* HashMap::insert
insert(map, key, value) ==
    [k \in DOMAIN map \cup {key} |-> IF k = key THEN value ELSE map[k]]

\* input.splitn(2, '='): one part when there is no '=', else the text before
\* the first '=' and all of the text after it
RECURSIVE splitn2(_)
splitn2(s) ==
    IF s = "" THEN <<"">>
    ELSE IF Head(s) = Head("=") THEN <<"", Tail(s)>>
    ELSE LET rest == splitn2(Tail(s)) IN
         IF Len(rest) = 1 THEN <<s>>
         ELSE <<SubSeq(s, 1, 1) \o rest[1], rest[2]>>

\* serde_json::from_str::<Value>, on the value texts used below: null, true,
\* false, a number of digits, a quoted string without escapes, [] and {},
\* each with blanks around it
RECURSIVE trim_blanks(_)
trim_blanks(s) ==
    IF s = "" THEN s
    ELSE IF SubSeq(s, 1, 1) = " " THEN trim_blanks(Tail(s))
    ELSE IF SubSeq(s, Len(s), Len(s)) = " " THEN trim_blanks(SubSeq(s, 1, Len(s) - 1))
    ELSE s

Digits == <<"0", "1", "2", "3", "4", "5", "6", "7", "8", "9">>
IsDigit(ch) == \E d \in 1..10 : Digits[d] = ch
DigitValue(ch) == (CHOOSE d \in 1..10 : Digits[d] = ch) - 1

RECURSIVE parse_number(_)
parse_number(s) ==
    IF Len(s) = 1 THEN DigitValue(s)
    ELSE 10 * parse_number(SubSeq(s, 1, Len(s) - 1)) + DigitValue(SubSeq(s, Len(s), Len(s)))

from_str_value(s) ==
    LET t == trim_blanks(s)
        n == Len(t)
        quote == "\""
    IN CASE t = "" -> Err("EOF while parsing a value")
         [] t = "null" -> Ok(JNull)
         [] t = "true" -> Ok(JBool(TRUE))
         [] t = "false" -> Ok(JBool(FALSE))
         [] t = "[]" -> Ok(JArr(<<>>))
         [] t = "{}" -> Ok(JObj(<<>>))
         [] n >= 1 /\ (\A i \in 1..n : IsDigit(SubSeq(t, i, i)))
                /\ (n = 1 \/ SubSeq(t, 1, 1) # "0") -> Ok(JNum(parse_number(t)))
         [] n >= 2 /\ SubSeq(t, 1, 1) = quote /\ SubSeq(t, n, n) = quote
                /\ (\A i \in 2..(n - 1) : SubSeq(t, i, i) \notin {quote, "\\"}) ->
                Ok(JStr(SubSeq(t, 2, n - 1)))
         [] OTHER -> Err("expected value")

\* parse_string_inputs
RECURSIVE parse_string_inputs_from(_, _)
parse_string_inputs_from(map, inputs) ==
    IF inputs = <<>> THEN Ok(map)
    ELSE LET parts == splitn2(Head(inputs)) IN
         IF Len(parts) # 2
         THEN Err("Invalid input format '" \o Head(inputs) \o "'. Expected 'key=value'")
         ELSE parse_string_inputs_from(insert(map, parts[1], JStr(parts[2])), Tail(inputs))

parse_string_inputs(inputs) == parse_string_inputs_from(<<>>, inputs)

\* parse_json_inputs
RECURSIVE parse_json_inputs_from(_, _)
parse_json_inputs_from(map, inputs) ==
    IF inputs = <<>> THEN Ok(map)
    ELSE LET parts == splitn2(Head(inputs)) IN
         IF Len(parts) # 2
         THEN Err("Invalid input format '" \o Head(inputs) \o "'. Expected 'key=json'")
         ELSE LET value == from_str_value(parts[2]) IN
              IF ~value.ok
              THEN Err("Failed to parse JSON for key '" \o parts[1] \o "': " \o parts[2])
              ELSE parse_json_inputs_from(insert(map, parts[1], value.val), Tail(inputs))

parse_json_inputs(inputs) == parse_json_inputs_from(<<>>, inputs)

\* for (key, value) in map { result.insert(key, value); }
extend(into, map) ==
    [k \in DOMAIN into \cup DOMAIN map |-> IF k \in DOMAIN map THEN map[k] ELSE into[k]]

\* base.unwrap_or_default()
unwrap_or_default(base) == IF base = None THEN <<>> ELSE base.val

combine_inputs_json_first(base, string_inputs, json_inputs) ==
    LET string_map == parse_string_inputs(string_inputs)
        json_map == parse_json_inputs(json_inputs)
    IN IF ~string_map.ok THEN string_map
       ELSE IF ~json_map.ok THEN json_map
       ELSE Ok(extend(extend(unwrap_or_default(base), json_map.val), string_map.val))

combine_inputs(base, string_inputs, json_inputs) ==
    LET map == unwrap_or_default(base)
        string_map == parse_string_inputs(string_inputs)
    IN IF ~string_map.ok THEN string_map
       ELSE LET json_map == parse_json_inputs(json_inputs) IN
            IF ~json_map.ok THEN json_map
            ELSE Ok(extend(extend(map, string_map.val), json_map.val))

CombineInputs ==
    /\ program = "combine_inputs" /\ step = "call"
    /\ returned' = Some(combine_inputs(args.base, args.string_inputs, args.json_inputs))
    /\ step' = "returned"
    /\ UNCHANGED <<hookFrame, input, feedback_messages, commands, stdout, exit_status>>

MaxInputs == 2

Bases ==
    {None, Some(<<>>), Some([existing |-> JStr("base")]),
     Some([existing |-> JStr("base"), command |-> JStr("base")])}

StringInputs == {"command=test", "file=/tmp/a=b", "command=", "=x", "command", ""}

JsonInputs ==
    {"command=\"override\"", "count=42", "existing= null ", "command={}", "count=", "command",
     "command=override"}

InputInit ==
    /\ content = <<>>
    /\ line_idx = 0
    /\ entries = <<>>
    /\ errors = <<>>
    /\ pc = "hook"
    /\ lib = CT
    /\ json_line = <<>>
    /\ result = Pending
    /\ answers = NoAnswers
    /\ program = "combine_inputs"
    /\ \E base \in Bases, string_inputs \in SeqsUpTo(StringInputs, MaxInputs),
          json_inputs \in SeqsUpTo(JsonInputs, MaxInputs) :
            args = [base |-> base, string_inputs |-> string_inputs,
                    json_inputs |-> json_inputs]
    /\ step = "call"
    /\ input = None
    /\ feedback_messages = <<>>
    /\ commands = <<>>
    /\ output = None
    /\ call = None
    /\ stdout = <<>>
    /\ exit_status = None
    /\ returned = None

InputNext == CombineInputs

InputSpec == InputInit /\ [][InputNext]_vars

(***************************************************************************)
(* Properties of combine_inputs                                            *)
(***************************************************************************)
Combined == program = "combine_inputs" /\ step = "returned"

HasEquals(s) == \E i \in 1..Len(s) : SubSeq(s, i, i) = "="
FirstEquals(s) == CHOOSE i \in 1..Len(s) : SubSeq(s, i, i) = "=" /\ ~HasEquals(SubSeq(s, 1, i - 1))
KeyOf(s) == SubSeq(s, 1, FirstEquals(s) - 1)
ValueOf(s) == SubSeq(s, FirstEquals(s) + 1, Len(s))

Malformed ==
    \/ \E i \in 1..Len(args.string_inputs) : ~HasEquals(args.string_inputs[i])
    \/ \E i \in 1..Len(args.json_inputs) :
            \/ ~HasEquals(args.json_inputs[i])
            \/ ~from_str_value(ValueOf(args.json_inputs[i])).ok

\* The inputs of one source that give key k
Giving(inputs, k) == {i \in 1..Len(inputs) : KeyOf(inputs[i]) = k}
Last(S) == CHOOSE i \in S : \A j \in S : j <= i
BaseKeys == IF args.base = None THEN {} ELSE DOMAIN args.base.val
Expected(k) ==
    LET js == Giving(args.json_inputs, k)
        ss == Giving(args.string_inputs, k)
    IN IF js # {} THEN from_str_value(ValueOf(args.json_inputs[Last(js)])).val
       ELSE IF ss # {} THEN JStr(ValueOf(args.string_inputs[Last(ss)]))
       ELSE args.base.val[k]

\* C25: combine_inputs returns a map holding every key of the base map, of
\* the key=value inputs and of the key=json inputs, where for a key given by
\* several sources the JSON input wins over the string input, which wins
\* over the base, and a key given by one source keeps that source's value;
\* when any input is malformed it returns an error and no map.
C25_CombineInputs ==
    Combined =>
        IF Malformed THEN ~returned.val.ok
        ELSE /\ returned.val.ok
             /\ DOMAIN returned.val.val =
                    BaseKeys \cup {KeyOf(args.string_inputs[i]) : i \in 1..Len(args.string_inputs)}
                             \cup {KeyOf(args.json_inputs[i]) : i \in 1..Len(args.json_inputs)}
             /\ \A k \in DOMAIN returned.val.val : returned.val.val[k] = Expected(k)

\* test_combine_inputs, with the base giving the key too
C25_Witness ==
    /\ Combined
    /\ args.base = Some([existing |-> JStr("base"), command |-> JStr("base")])
    /\ args.string_inputs = <<"command=test", "file=/tmp/a=b">>
    /\ args.json_inputs = <<"command=\"override\"">>
    /\ returned.val.ok
    /\ returned.val.val["command"] = JStr("override")
    /\ returned.val.val["existing"] = JStr("base")
    /\ returned.val.val["file"] = JStr("/tmp/a=b")

(***************************************************************************)
(* parse_transcript, beside parse_transcript_with_context on the same text *)
(***************************************************************************)
parse_transcript_every_line(l, s) ==
    LET kept == lines(s)
        rs == [i \in 1..Len(kept) |-> parse_transcript_line(l, kept[i])]
        bad == FirstIndex(Len(kept), [i \in 1..Len(kept) |-> ~rs[i].ok])
    IN IF bad # 0 THEN rs[bad] ELSE Ok([i \in 1..Len(kept) |-> rs[i].val])

\* content.lines().filter(|line| !line.is_empty()).map(parse_transcript_line).collect():
\* the first Err met, or all the entries
parse_transcript(l, s) ==
    LET kept == SelectSeq(lines(s), LAMBDA line : line # <<>>)
        rs == [i \in 1..Len(kept) |-> parse_transcript_line(l, kept[i])]
        bad == FirstIndex(Len(kept), [i \in 1..Len(kept) |-> ~rs[i].ok])
    IN IF bad # 0 THEN rs[bad] ELSE Ok([i \in 1..Len(kept) |-> rs[i].val])

ParseTranscript ==
    /\ pc = "done"
    /\ result = Pending
    /\ result' = parse_transcript(lib, content)
    /\ UNCHANGED <<content, line_idx, entries, errors, pc, lib, json_line, answers, hookVars>>

BlankAlphabet == {LF, CR, SP, TAB, X, Doc(UserDoc), Doc(MissingTypeDoc)}

RECURSIVE TextsOver(_, _)
TextsOver(A, n) ==
    IF n = 0 THEN {<<>>}
    ELSE LET shorter == TextsOver(A, n - 1) IN
         shorter \cup {Append(t, ch) : t \in {u \in shorter : Len(u) = n - 1}, ch \in A}

TranscriptInit ==
    /\ content \in TextsOver(BlankAlphabet, MaxLen)
    /\ line_idx = 0
    /\ entries = <<>>
    /\ errors = <<>>
    /\ pc = "loop"
    /\ lib = CT
    /\ json_line = <<>>
    /\ result = Pending
    /\ answers = NoAnswers
    /\ HookIdle

TranscriptNext == SkipEmpty \/ PushEntry \/ PushError \/ Return \/ ParseTranscript

TranscriptSpec == TranscriptInit /\ [][TranscriptNext]_vars

(***************************************************************************)
(* Properties of the two parsers                                           *)
(***************************************************************************)
BothDone == pc = "done" /\ result # Pending
FirstBadLine == CHOOSE i \in BadLines : \A j \in BadLines : i <= j

\* C26: parse_transcript(text) returns Ok exactly when
\* parse_transcript_with_context(text) has an empty errors sequence, and
\* then both return the same sequence of entries; otherwise parse_transcript
\* returns the decode error of the first malformed non-empty line and no
\* entries; in both functions empty lines are skipped.
C26_SameAnswer ==
    BothDone =>
        /\ result.ok <=> errors = <<>>
        /\ result.ok => result.val = entries
        /\ ~result.ok =>
            /\ DOMAIN result = {"ok", "err"}
            /\ result.err = errors[1].json_error
            /\ result.err = parse_transcript_line(lib, lines(content)[FirstBadLine]).err
        /\ Len(entries) + Len(errors) = Cardinality(NonEmptyLines)

C26_Witness ==
    /\ BothDone
    /\ ~result.ok
    /\ Len(entries) >= 1
    /\ \E i \in 1..Len(lines(content)) : lines(content)[i] = <<>>

Blank(line) == line # <<>> /\ \A k \in 1..Len(line) : line[k] \in {SP, TAB}

\* C30: parse_transcript_with_context skips zero-length lines only: a line
\* made only of spaces or tabs is tried as an entry, fails to decode and is
\* recorded as an error with its own 1-based line number and its content
\* as it stands, instead of being treated as a blank line.
C30_BlankLinesAreErrors ==
    Done =>
        /\ \A i \in 1..Len(lines(content)) :
                Blank(lines(content)[i]) =>
                    \E e \in 1..Len(errors) :
                        /\ errors[e].line_number = i
                        /\ errors[e].line_content = lines(content)[i]
        /\ Len(entries) + Len(errors) = Cardinality({i \in 1..Len(lines(content)) : Len(lines(content)[i]) > 0})

C30_Witness ==
    /\ Done
    /\ Len(lines(content)) = 3
    /\ lines(content)[1] = <<>>
    /\ lines(content)[2] = <<SP, TAB>>
    /\ errors = <<TranscriptParseError(2, <<SP, TAB>>, "EOF while parsing a value")>>
====
